---- MODULE Spec2Model ----
(***************************************************************************)
(* mirrorshuttle, move mode: the tree transfer walker (moveFiles), the     *)
(* single-file transfer (copyAndRemove), the shared failure policy         *)
(* (walkError), the exclusion matcher (isExcluded) and the cancellable     *)
(* reader (contextReader), over an abstract filesystem.                    *)
(*                                                                         *)
(* A path is a sequence of names.  A file's content is a sequence of       *)
(* chunks; io.Copy moves one chunk per Read.  Filesystem calls that can    *)
(* fail draw their outcome from {ok, failed}.  Other processes may remove  *)
(* a staging file or rewrite a committed destination (Ext* actions).       *)
(***************************************************************************)
EXTENDS Integers, Sequences, FiniteSets, TLC

VARIABLES
    opts,       \* programOptions (MirrorRoot, RealRoot, Excludes, flags)
    fs,         \* the filesystem: path -> node
    cancelled,  \* ctx.Done() is closed
    pc,         \* position of the single control thread
    stack,      \* afero.Walk's recursion: frames of directory entries to visit
    tr,         \* locals of the copyAndRemove call in progress
    state,      \* programState: hasUnmovedFiles, hasPartialFailures
    result,     \* what moveFiles returned ("none" while running)
    runs,       \* number of process runs started
    ext,        \* paths mutated by other processes
    pre,        \* filesystem when the current copyAndRemove was called
    fs0,        \* filesystem when the current run started
    hist,       \* what the run did last (entry visited, classification)
    killed,     \* where an earlier run was killed or failed its verify pass, and
                \* the filesystem then
    failed      \* entries of this run whose error was handed to walkError

vars == <<opts, fs, cancelled, pc, stack, tr, state, result, runs, ext, pre, fs0, hist,
          killed, failed>>

----------------------------------------------------------------------------
(* Bounds of the model *)

\* Longest file content, in chunks.
MaxLen == 2
\* Mutations by other processes during one behaviour.
MaxExt == 1
\* Process runs in one behaviour (a killed or failed run followed by a re-run).
MaxRuns == 2
\* Longest path the walk of a staging tree that holds the protected root is
\* followed to, in segments.
MaxDepth == 4

----------------------------------------------------------------------------
(* Paths *)

\* The names that occur, in the byte order readDirNames sorts them into.
NameOrder == <<"a", "a.mirsht", "d", "e", "e.mirsht", "mirror", "mirror.mirsht", "real">>

NameIndex(n) == CHOOSE i \in 1..Len(NameOrder) : NameOrder[i] = n

Dir(p) == SubSeq(p, 1, Len(p) - 1)
Base(p) == p[Len(p)]

Min(a, b) == IF a < b THEN a ELSE b

CommonLen(a, b) ==
    CHOOSE k \in 0..Min(Len(a), Len(b)) :
        /\ \A i \in 1..k : a[i] = b[i]
        /\ k = Min(Len(a), Len(b)) \/ a[k + 1] # b[k + 1]

\* filepath.Rel(base, targ) for two cleaned absolute paths: one ".." for every
\* segment of base below the common prefix, then the rest of targ.  The empty
\* sequence stands for ".".
Rel(base, targ) ==
    LET k == CommonLen(base, targ)
    IN  [i \in 1..(Len(base) - k) |-> ".."] \o SubSeq(targ, k + 1, Len(targ))

\* filepath.Join(root, rel) for a rel without ".." segments.
Join(root, rel) == root \o rel

\* strings.HasPrefix(rel, ".."): the relative path's text begins with two dots,
\* which is decided by its first segment.
DotDotNames == {"..", "..x"}
HasDotDotPrefix(rel) == rel # <<>> /\ rel[1] \in DotDotNames

isExcluded(path, excludes) ==
    \E i \in 1..Len(excludes) :
        \/ path = excludes[i]
        \/ ~HasDotDotPrefix(Rel(excludes[i], path))

\* A transfer that works on the destination itself.
WorkingFile_IsDst(dst) == dst

\* workingFile := dst + ".mirsht"
workingSuffix == ".mirsht"
WorkingFile(dst) == Dir(dst) \o <<Base(dst) \o workingSuffix>>

----------------------------------------------------------------------------
(* Filesystem *)

DirNode == [isDir |-> TRUE, data |-> <<>>]
FileNode(d) == [isDir |-> FALSE, data |-> d]

EmptyFs == [p \in {} |-> DirNode]

Exists(f, p) == p \in DOMAIN f
IsFile(f, p) == Exists(f, p) /\ ~f[p].isDir
Put(f, p, node) == [q \in DOMAIN f \cup {p} |-> IF q = p THEN node ELSE f[q]]
Del(f, p) == [q \in DOMAIN f \ {p} |-> f[q]]
\* rename(2) of a regular file: replaces whatever is at the new path.
RenameFile(f, old, new) == Put(Del(f, old), new, f[old])

\* The names in directory p, sorted (readDirNames).
RECURSIVE SortedFrom(_, _, _)
SortedFrom(f, p, i) ==
    IF i > Len(NameOrder) THEN <<>>
    ELSE (IF Exists(f, p \o <<NameOrder[i]>>) THEN <<NameOrder[i]>> ELSE <<>>)
         \o SortedFrom(f, p, i + 1)
readDirNames(f, p) == SortedFrom(f, p, 1)

\* os.Stat without an injected fault.  A path below a regular file answers
\* ENOTDIR, which is an error other than ErrNotExist.
Stat(f, p) ==
    IF Exists(f, p) THEN "ok"
    ELSE IF IsFile(f, Dir(p)) THEN "error"
    ELSE "notexist"

----------------------------------------------------------------------------
(* Digests: an incremental hasher over the chunks written to it.  The digest *)
(* is injective on the contents of the model (collision resistance).        *)

HashNew == 0
HashWrite(h, chunk) == h * 16 + chunk + 1
RECURSIVE HashOf(_)
HashOf(data) ==
    IF data = <<>> THEN HashNew
    ELSE HashWrite(HashOf(SubSeq(data, 1, Len(data) - 1)), data[Len(data)])

----------------------------------------------------------------------------
(* Configurations and initial trees *)

Ramp(n) == [i \in 1..n |-> i]

RootPairs ==
    { [MirrorRoot |-> <<"mirror">>, RealRoot |-> <<"real">>],
      [MirrorRoot |-> <<"real", "mirror">>, RealRoot |-> <<"real">>] }

\* No exclusion; a staging file and a protected directory; a staging directory
\* and a protected file.
ExcludeLists(r) ==
    { <<>>,
      <<r.MirrorRoot \o <<"e">>, r.RealRoot \o <<"d">>>>,
      <<r.MirrorRoot \o <<"d">>, r.RealRoot \o <<"e">>>> }

Configs ==
    { [MirrorRoot |-> r.MirrorRoot, RealRoot |-> r.RealRoot, Excludes |-> x,
       Direct |-> di, Verify |-> ve, SkipFailed |-> sf, DryRun |-> dr] :
        r \in RootPairs, x \in UNION {ExcludeLists(q) : q \in RootPairs},
        di \in BOOLEAN, ve \in BOOLEAN, sf \in BOOLEAN, dr \in BOOLEAN }

ValidConfigs == { c \in Configs : c.Excludes \in ExcludeLists(c) }

\* Pairs of a staging tree and a protected tree, each as the entries below
\* its root: one file; a file whose target exists; a file whose working file
\* is left over from a killed run; two files; a directory with a file and a
\* file after it, with and without the directory on the protected side; a
\* file named like the mirror root; a directory named like the mirror root
\* with a file; a staging directory whose target is a regular file.
Layouts ==
    { [staging |-> (<<"a">> :> FileNode(Ramp(MaxLen))),
       real |-> EmptyFs],
      [staging |-> (<<"a">> :> FileNode(Ramp(MaxLen))) @@ (<<"e">> :> FileNode(<<>>)),
       real |-> (<<"a">> :> FileNode(<<3>>))],
      [staging |-> (<<"a">> :> FileNode(Ramp(MaxLen))),
       real |-> (<<"a.mirsht">> :> FileNode(<<1>>))],
      [staging |-> (<<"d">> :> DirNode) @@ (<<"d", "a">> :> FileNode(Ramp(MaxLen)))
                       @@ (<<"e">> :> FileNode(<<1>>)),
       real |-> EmptyFs],
      [staging |-> (<<"d">> :> DirNode) @@ (<<"d", "a">> :> FileNode(<<1>>)),
       real |-> (<<"d">> :> DirNode) @@ (<<"d", "a">> :> FileNode(<<3>>))],
      [staging |-> (<<"a">> :> FileNode(<<1>>)) @@ (<<"mirror">> :> FileNode(<<1>>)),
       real |-> EmptyFs],
      [staging |-> (<<"mirror">> :> DirNode) @@ (<<"mirror", "a">> :> FileNode(<<1>>)),
       real |-> EmptyFs],
      [staging |-> (<<"d">> :> DirNode) @@ (<<"d", "a">> :> FileNode(<<1>>)),
       real |-> (<<"d">> :> FileNode(<<3>>))] }

Graft(root, layout) == [p \in {Join(root, r) : r \in DOMAIN layout} |-> layout[Rel(root, p)]]

\* Trees in which a root is missing: no staging root, and (for a staging
\* root outside the protected tree) no protected root.
RootlessTrees(c) ==
    { (c.RealRoot :> DirNode) @@ Graft(c.RealRoot, <<"a">> :> FileNode(<<1>>)) }
    \cup IF SubSeq(c.MirrorRoot, 1, Len(c.RealRoot)) = c.RealRoot THEN {}
         ELSE { (c.MirrorRoot :> DirNode) @@ Graft(c.MirrorRoot, <<"a">> :> FileNode(<<1>>)) }

InitTrees(c) ==
    { (c.RealRoot :> DirNode) @@ (c.MirrorRoot :> DirNode)
          @@ Graft(c.MirrorRoot, l.staging) @@ Graft(c.RealRoot, l.real) :
        l \in Layouts }
    \cup RootlessTrees(c)

----------------------------------------------------------------------------
(* Errors are tags.  "nil" is no error. *)

ErrCanceled == "context.Canceled"
SkipDir == "filepath.SkipDir"
ErrIO == "error"

ErrMemoryHashMismatch == "errMemoryHashMismatch"
ErrVerifyHashMismatch == "errVerifyHashMismatch"
ErrMirrorNotExist == "errMirrorNotExist"
ErrTargetNotExist == "errTargetNotExist"

\* The empty string of a hash that was not computed.
NoHash == -1

NoTransfer ==
    [src |-> <<>>, dst |-> <<>>, workingFile |-> <<>>, armed |-> FALSE,
     inData |-> <<>>, pos |-> 0, srcHasher |-> HashNew, dstHasher |-> HashNew,
     vData |-> <<>>, vpos |-> 0, verifyHasher |-> HashNew,
     srcHash |-> NoHash, dstHash |-> NoHash, verifyHash |-> NoHash,
     retErr |-> "nil", failedAt |-> "none",
     cleanup |-> [stat |-> "none", remove |-> "none"]]

NoHist == [path |-> <<>>, class |-> "none"]

NotKilled == [at |-> "none", src |-> <<>>, dst |-> <<>>, fs |-> EmptyFs]

\* A run over one of the configurations of C.
InitWith(C) ==
    /\ opts \in C
    /\ fs \in InitTrees(opts)
    /\ cancelled = FALSE
    /\ pc = "start"
    /\ stack = <<>>
    /\ tr = NoTransfer
    /\ state = [hasUnmovedFiles |-> FALSE, hasPartialFailures |-> FALSE]
    /\ result = "none"
    /\ runs = 1
    /\ ext = {}
    /\ pre = fs
    /\ fs0 = fs
    /\ hist = NoHist
    /\ killed = NotKilled
    /\ failed = {}

Init == InitWith(ValidConfigs)

----------------------------------------------------------------------------
(* Fault injection: what a filesystem call can answer *)

StatOutcomes(f, p) == {Stat(f, p), ErrIO}

\* The filesystem root is a directory that is always there.
IsDirectory(f, p) == p = <<>> \/ (Exists(f, p) /\ f[p].isDir)

MkdirOutcomes(f, p) ==
    IF IsDirectory(f, Dir(p)) /\ ~Exists(f, p) THEN {"ok", ErrIO} ELSE {ErrIO}

RenameOutcomes(f, old, new) ==
    IF Exists(f, old) /\ Exists(f, Dir(new)) /\ f[Dir(new)].isDir THEN {"ok", ErrIO} ELSE {ErrIO}

OpenOutcomes(f, p) == IF IsFile(f, p) THEN {"ok", ErrIO} ELSE {ErrIO}

\* A Create that refuses an existing file (O_EXCL).
CreateOutcomes_Exclusive(f, p) ==
    IF Exists(f, Dir(p)) /\ f[Dir(p)].isDir /\ ~Exists(f, p) THEN {"ok", ErrIO} ELSE {ErrIO}

CreateOutcomes(f, p) ==
    IF Exists(f, Dir(p)) /\ f[Dir(p)].isDir /\ (Exists(f, p) => ~f[p].isDir)
    THEN {"ok", ErrIO} ELSE {ErrIO}

RemoveOutcomes(f, p) == IF Exists(f, p) THEN {"ok", ErrIO} ELSE {"notexist"}

CallOutcomes == {"ok", ErrIO}

----------------------------------------------------------------------------
(* Shared failure policy *)

\* walkError without the test for context.Canceled.
walkError_NoCtx(eIsDir, err, st) ==
    IF opts.SkipFailed
    THEN [ret |-> IF eIsDir THEN SkipDir ELSE "nil",
          state |-> [st EXCEPT !.hasPartialFailures = TRUE]]
    ELSE [ret |-> err, state |-> st]

\* walkError that returns nil for a directory as for a file.
walkError_NoSkipDir(eIsDir, err, st) ==
    IF err # ErrCanceled /\ opts.SkipFailed
    THEN [ret |-> "nil", state |-> [st EXCEPT !.hasPartialFailures = TRUE]]
    ELSE [ret |-> err, state |-> st]

\* walkError that absorbs every error, failure-tolerant mode or not.
walkError_Lenient(eIsDir, err, st) ==
    [ret |-> IF eIsDir THEN SkipDir ELSE "nil",
     state |-> [st EXCEPT !.hasPartialFailures = TRUE]]

\* walkError that returns every error, failure-tolerant mode or not.
walkError_Strict(eIsDir, err, st) == [ret |-> err, state |-> st]

\* walkError(e, err): the value handed back to the walk, and the new state.
walkError(eIsDir, err, st) ==
    IF err # ErrCanceled /\ opts.SkipFailed
    THEN [ret |-> IF eIsDir THEN SkipDir ELSE "nil",
          state |-> [st EXCEPT !.hasPartialFailures = TRUE]]
    ELSE [ret |-> err, state |-> st]

----------------------------------------------------------------------------
(* afero.Walk: the recursion as a stack of directory loops.  The head frame  *)
(* is the innermost loop; the last frame stands for Walk's call on the root. *)

RootFrame == [dir |-> Dir(opts.MirrorRoot), names |-> <<Base(opts.MirrorRoot)>>]

CurPath == Head(stack).dir \o <<Head(Head(stack).names)>>

\* The stack with the current entry taken off its loop.
Advanced == <<[Head(stack) EXCEPT !.names = Tail(@)]>> \o Tail(stack)

RECURSIVE Normalise(_)
Normalise(st) ==
    IF st = <<>> THEN <<>>
    ELSE IF Head(st).names = <<>> THEN Normalise(Tail(st))
    ELSE st

\* The walk goes on with the loops of st, or ends when none has an entry left.
Continue(st) ==
    LET n == Normalise(st)
    IN  IF n = <<>>
        THEN pc' = "done" /\ result' = "nil" /\ stack' = <<>>
        ELSE pc' = "walk" /\ result' = result /\ stack' = n

\* Walk returns err to moveFiles, which returns it.
Finish(err) == pc' = "done" /\ result' = err /\ stack' = <<>>

\* walk(CurPath) hands v back to the loop that called it.
LoopReturn(v, isDir) ==
    IF v = "nil" THEN Continue(Advanced)
    ELSE IF Len(stack) = 1 THEN Finish(v)
    ELSE IF v = SkipDir /\ isDir THEN Continue(Advanced)
    ELSE IF v = SkipDir /\ Len(stack) >= 3 THEN Continue(Tail(stack))
    ELSE Finish(v)

\* The callback returned r for CurPath, called from walk(CurPath).
CallbackReturn(r, isDir) ==
    LoopReturn(IF r = SkipDir /\ isDir THEN "nil" ELSE r, isDir)

----------------------------------------------------------------------------
(* moveFiles *)

\* movePath := filepath.Join(RealRoot, filepath.Rel(MirrorRoot, path))
MovePath(path) == Join(opts.RealRoot, Rel(opts.MirrorRoot, path))

Env0 == <<opts, cancelled, runs, ext, fs0, killed>>
Env == <<Env0, failed>>

\* The entry's error goes to walkError; a cancellation is not a failure of the
\* entry.
Failed(path, err) == failed' = IF err = ErrCanceled THEN failed ELSE failed \cup {path}

Note(path, class) == hist' = [path |-> path, class |-> class]

\* A moveFiles without the check of the target root.
Start_NoTargetCheck ==
    /\ pc = "start"
    /\ \E m \in StatOutcomes(fs, opts.MirrorRoot) :
        IF m = "notexist" THEN Finish(ErrMirrorNotExist)
        ELSE IF m = ErrIO THEN Finish(ErrIO)
        ELSE pc' = "walk" /\ stack' = <<RootFrame>> /\ result' = result
    /\ Note(<<>>, "start")
    /\ UNCHANGED <<Env, fs, tr, state, pre>>

\* The two precondition checks, then the call of afero.Walk on the mirror root.
Start ==
    /\ pc = "start"
    /\ \E m \in StatOutcomes(fs, opts.MirrorRoot), t \in StatOutcomes(fs, opts.RealRoot) :
        IF m = "notexist" THEN Finish(ErrMirrorNotExist)
        ELSE IF m = ErrIO THEN Finish(ErrIO)
        ELSE IF t = "notexist" THEN Finish(ErrTargetNotExist)
        ELSE IF t = ErrIO THEN Finish(ErrIO)
        ELSE pc' = "walk" /\ stack' = <<RootFrame>> /\ result' = result
    /\ Note(<<>>, "start")
    /\ UNCHANGED <<Env, fs, tr, state, pre>>

\* A callback that never looks at the context.
CtxCheck_Never == FALSE

\* The callback's first statement: ctx.Err() != nil.
CtxCheck == cancelled

\* An interrupt was received: the callback returns the context's error.
WalkCancelled ==
    /\ pc = "walk"
    /\ CtxCheck
    /\ Finish(ErrCanceled)
    /\ Note(CurPath, "cancelled")
    /\ UNCHANGED <<Env, fs, tr, state, pre>>

\* A callback that hands a vanished entry to walkError like any other failure.
WalkEntryGone_AsError ==
    /\ pc = "walk"
    /\ ~CtxCheck
    /\ ~Exists(fs, CurPath)
    /\ LET we == walkError(FALSE, ErrIO, state)
       IN  /\ state' = we.state
           /\ CallbackReturn(we.ret, FALSE)
    /\ Note(CurPath, "walk_error")
    /\ Failed(CurPath, ErrIO)
    /\ UNCHANGED <<Env0, fs, tr, pre>>

\* lstat of the entry failed with ErrNotExist: the callback skips it.  The loop
\* (or Walk, for the root) called the callback itself, so nothing is descended.
WalkEntryGone ==
    /\ pc = "walk"
    /\ ~CtxCheck
    /\ ~Exists(fs, CurPath)
    /\ Continue(Advanced)
    /\ Note(CurPath, "no_longer_exists")
    /\ UNCHANGED <<Env, fs, tr, state, pre>>

\* The callback got the entry with its FileInfo and no error.
Visiting == pc = "walk" /\ ~CtxCheck /\ Exists(fs, CurPath)

SkipSrcExcluded ==
    /\ Visiting
    /\ isExcluded(CurPath, opts.Excludes)
    /\ CallbackReturn(IF fs[CurPath].isDir THEN SkipDir ELSE "nil", fs[CurPath].isDir)
    /\ Note(CurPath, "src_excluded")
    /\ UNCHANGED <<Env, fs, tr, state, pre>>

SkipMirrorIntoMirror ==
    /\ Visiting
    /\ ~isExcluded(CurPath, opts.Excludes)
    /\ MovePath(CurPath) = opts.MirrorRoot
    /\ CallbackReturn(SkipDir, fs[CurPath].isDir)
    /\ Note(CurPath, "mirror_into_mirror")
    /\ UNCHANGED <<Env, fs, tr, state, pre>>

SkipDstExcluded ==
    /\ Visiting
    /\ ~isExcluded(CurPath, opts.Excludes)
    /\ MovePath(CurPath) # opts.MirrorRoot
    /\ isExcluded(MovePath(CurPath), opts.Excludes)
    /\ CallbackReturn(IF fs[CurPath].isDir THEN SkipDir ELSE "nil", fs[CurPath].isDir)
    /\ Note(CurPath, "dst_excluded")
    /\ UNCHANGED <<Env, fs, tr, state, pre>>

\* A callback without the check of the target path against the excludes.
Eligible_NoDstCheck ==
    /\ Visiting
    /\ ~isExcluded(CurPath, opts.Excludes)
    /\ MovePath(CurPath) # opts.MirrorRoot

\* A callback without the mirror-into-mirror guard.
Eligible_NoMirrorCheck ==
    /\ Visiting
    /\ ~isExcluded(CurPath, opts.Excludes)
    /\ ~isExcluded(MovePath(CurPath), opts.Excludes)

\* A callback whose mirror-into-mirror guard lets a directory pass.
Eligible_MirrorCheckFilesOnly ==
    /\ Visiting
    /\ ~isExcluded(CurPath, opts.Excludes)
    /\ MovePath(CurPath) = opts.MirrorRoot => ~fs[CurPath].isDir
    /\ ~isExcluded(MovePath(CurPath), opts.Excludes)

\* Past the three guards.
Eligible ==
    /\ Visiting
    /\ ~isExcluded(CurPath, opts.Excludes)
    /\ MovePath(CurPath) # opts.MirrorRoot
    /\ ~isExcluded(MovePath(CurPath), opts.Excludes)

\* A walker that creates a missing target directory in a dry run too.
MkdirWanted_DryRunToo(st) == st = "notexist"

\* A walker that never creates a target directory.
MkdirWanted_Never(st) == FALSE

\* The target directory is missing and this is not a dry run.
MkdirWanted(st) == st = "notexist" /\ ~opts.DryRun

\* A directory: create the target directory if it is missing.  When the
\* callback returns nil, walk reads the directory's names and descends, or,
\* when the read fails, calls the callback again with the error.
VisitDir ==
    /\ Eligible
    /\ fs[CurPath].isDir
    /\ LET p == CurPath
           mp == MovePath(CurPath)
       IN \E st \in StatOutcomes(fs, mp), mk \in MkdirOutcomes(fs, mp), rd \in CallOutcomes :
            LET create == MkdirWanted(st)
                broken == st = ErrIO \/ (create /\ mk = ErrIO)
                fs1 == IF create /\ mk = "ok" THEN Put(fs, mp, DirNode) ELSE fs
                we == IF broken THEN walkError(TRUE, ErrIO, state)
                      ELSE [ret |-> "nil", state |-> state]
                we2 == walkError(TRUE, ErrIO, we.state)
            IN  /\ fs' = fs1
                /\ IF we.ret # "nil"
                   THEN /\ state' = we.state
                        /\ CallbackReturn(we.ret, TRUE)
                        /\ Note(p, "dir_error")
                        /\ Failed(p, ErrIO)
                   ELSE IF rd = "ok"
                   THEN /\ state' = we.state
                        /\ Continue(<<[dir |-> p, names |-> readDirNames(fs1, p)]>> \o Advanced)
                        /\ Note(p, IF broken THEN "dir_error"
                                   ELSE IF st = "notexist" THEN "dir_created" ELSE "dir_exists")
                        /\ IF broken THEN Failed(p, ErrIO) ELSE failed' = failed
                   ELSE /\ state' = we2.state
                        /\ LoopReturn(we2.ret, TRUE)
                        /\ Note(p, "walk_error")
                        /\ Failed(p, ErrIO)
    /\ UNCHANGED <<Env0, tr, pre>>

\* The target-exists branch without the unmoved files bit.
FileExists_NoFlag ==
    /\ Eligible
    /\ ~fs[CurPath].isDir
    /\ Stat(fs, MovePath(CurPath)) = "ok"
    /\ CallbackReturn("nil", FALSE)
    /\ Note(CurPath, "target_exists")
    /\ UNCHANGED <<Env, fs, tr, state, pre>>

\* A file whose target exists: not overwritten, the unmoved files bit is set.
FileExists ==
    /\ Eligible
    /\ ~fs[CurPath].isDir
    /\ Stat(fs, MovePath(CurPath)) = "ok"
    /\ state' = [state EXCEPT !.hasUnmovedFiles = TRUE]
    /\ CallbackReturn("nil", FALSE)
    /\ Note(CurPath, "target_exists")
    /\ UNCHANGED <<Env, fs, tr, pre>>

\* Stat of the target failed with something other than ErrNotExist.
FileStatError ==
    /\ Eligible
    /\ ~fs[CurPath].isDir
    /\ LET we == walkError(FALSE, ErrIO, state)
       IN  /\ state' = we.state
           /\ CallbackReturn(we.ret, FALSE)
    /\ Note(CurPath, "stat_error")
    /\ Failed(CurPath, ErrIO)
    /\ UNCHANGED <<Env0, fs, tr, pre>>

\* A walker that moves without looking at the target.
Movable_IgnoresTarget ==
    /\ Eligible
    /\ ~fs[CurPath].isDir

\* A walker whose dry run does not look at the target.
Movable_DryRunIgnoresTarget ==
    /\ Eligible
    /\ ~fs[CurPath].isDir
    /\ ~opts.DryRun => Stat(fs, MovePath(CurPath)) = "notexist"

\* The target does not exist.
Movable ==
    /\ Eligible
    /\ ~fs[CurPath].isDir
    /\ Stat(fs, MovePath(CurPath)) = "notexist"

FileDryRun ==
    /\ Movable
    /\ opts.DryRun
    /\ CallbackReturn("nil", FALSE)
    /\ Note(CurPath, "would_move")
    /\ UNCHANGED <<Env, fs, tr, state, pre>>

\* A direct mode that renames before it looks at the target.
FileDirect_Force ==
    /\ Eligible
    /\ ~fs[CurPath].isDir
    /\ ~opts.DryRun
    /\ opts.Direct
    /\ "ok" \in RenameOutcomes(fs, CurPath, MovePath(CurPath))
    /\ fs' = RenameFile(fs, CurPath, MovePath(CurPath))
    /\ CallbackReturn("nil", FALSE)
    /\ Note(CurPath, "moved_direct")
    /\ UNCHANGED <<Env, tr, state, pre>>

\* Direct mode: the rename syscall succeeded.
FileDirect ==
    /\ Movable
    /\ ~opts.DryRun
    /\ opts.Direct
    /\ "ok" \in RenameOutcomes(fs, CurPath, MovePath(CurPath))
    /\ fs' = RenameFile(fs, CurPath, MovePath(CurPath))
    /\ CallbackReturn("nil", FALSE)
    /\ Note(CurPath, "moved_direct")
    /\ UNCHANGED <<Env, tr, state, pre>>

\* A direct mode in which a failed rename is the file's failure.
FileCopy_RenameFatal ==
    /\ Movable
    /\ ~opts.DryRun
    /\ IF opts.Direct
       THEN /\ ErrIO \in RenameOutcomes(fs, CurPath, MovePath(CurPath))
            /\ LET we == walkError(FALSE, ErrIO, state)
               IN  /\ state' = we.state
                   /\ CallbackReturn(we.ret, FALSE)
            /\ Note(CurPath, "move_failed")
            /\ Failed(CurPath, ErrIO)
            /\ UNCHANGED <<Env0, fs, tr, pre>>
       ELSE /\ tr' = [NoTransfer EXCEPT !.src = CurPath, !.dst = MovePath(CurPath),
                                       !.workingFile = WorkingFile(MovePath(CurPath))]
            /\ pre' = fs
            /\ pc' = "open"
            /\ Note(CurPath, "copy")
            /\ UNCHANGED <<Env, fs, stack, state, result>>

\* Not direct mode, or the rename failed: call copyAndRemove(ctx, path, movePath).
FileCopy ==
    /\ Movable
    /\ ~opts.DryRun
    /\ opts.Direct => ErrIO \in RenameOutcomes(fs, CurPath, MovePath(CurPath))
    /\ tr' = [NoTransfer EXCEPT !.src = CurPath, !.dst = MovePath(CurPath),
                                !.workingFile = WorkingFile(MovePath(CurPath))]
    /\ pre' = fs
    /\ pc' = "open"
    /\ Note(CurPath, "copy")
    /\ UNCHANGED <<Env, fs, stack, state, result>>

\* The transfer t failed in its verify pass, other than by an interrupt.
VerifyFailed(t) ==
    t.failedAt \in {"vopen", "vread", "vclose", "vhash"} /\ t.retErr # ErrCanceled

\* The cleanup of t could not tell whether src exists, or its Remove failed.
CleanupFailed(t) == t.cleanup.stat # "ok" \/ t.cleanup.remove = ErrIO

\* copyAndRemove returned: the callback logs the move or hands the error to
\* walkError, and returns.  A failed verify pass is remembered for the run
\* the operator starts afterwards.
CopyReturn ==
    /\ pc = "ret"
    /\ LET we == IF tr.retErr = "nil" THEN [ret |-> "nil", state |-> state]
                 ELSE walkError(FALSE, tr.retErr, state)
       IN  /\ state' = we.state
           /\ CallbackReturn(we.ret, FALSE)
    /\ Note(tr.src, IF tr.retErr = "nil" THEN "moved_copy" ELSE "move_failed")
    /\ tr' = NoTransfer
    /\ IF tr.retErr = "nil" THEN failed' = failed ELSE Failed(tr.src, tr.retErr)
    /\ killed' = IF VerifyFailed(tr)
                 THEN [at |-> IF CleanupFailed(tr) THEN "verify_kept" ELSE "verify",
                       src |-> tr.src, dst |-> tr.dst, fs |-> fs]
                 ELSE killed
    /\ UNCHANGED <<opts, cancelled, runs, ext, fs0, fs, pre>>

----------------------------------------------------------------------------
(* copyAndRemove *)

Walker == <<stack, state, result, pre, hist>>

\* A return with an error: the deferred cleanup runs if it was registered.
Fail(err) ==
    /\ tr' = [tr EXCEPT !.retErr = err, !.failedAt = pc]
    /\ pc' = IF tr.armed THEN "cleanup" ELSE "ret"

\* A reader that hands every Read to the wrapped reader.
ReaderCancelled_Never == FALSE

\* contextReader.Read: a closed ctx.Done() answers context.Canceled and reads
\* nothing; otherwise the read goes to the wrapped reader.
ReaderCancelled == cancelled

\* in, err := prog.fsys.Open(src)
OpenSource ==
    /\ pc = "open"
    /\ \E o \in OpenOutcomes(fs, tr.src) :
        IF o = "ok"
        THEN tr' = [tr EXCEPT !.inData = fs[tr.src].data] /\ pc' = "create"
        ELSE Fail(ErrIO)
    /\ UNCHANGED <<Env, fs, Walker>>

\* out, err := prog.fsys.Create(workingFile); then the cleanup is deferred.
CreateWorkingFile ==
    /\ pc = "create"
    /\ \E o \in CreateOutcomes(fs, tr.workingFile) :
        IF o = "ok"
        THEN /\ fs' = Put(fs, tr.workingFile, FileNode(<<>>))
             /\ tr' = [tr EXCEPT !.armed = TRUE]
             /\ pc' = "copy"
        ELSE fs' = fs /\ Fail(ErrIO)
    /\ UNCHANGED <<Env, Walker>>

\* What the written chunk is when the buffer was corrupted in memory.
Corrupted(chunk) == chunk + 1

\* One round of io.Copy(multiWriter, ctxReader): a Read through the
\* contextReader and the TeeReader (the chunk goes to srcHasher), then a Write
\* of the buffer to out and to dstHasher.  The Read after the last chunk
\* answers EOF and ends the copy.
CopyChunk ==
    /\ pc = "copy"
    /\ IF ReaderCancelled THEN fs' = fs /\ Fail(ErrCanceled)
       ELSE IF tr.pos = Len(tr.inData) THEN fs' = fs /\ tr' = tr /\ pc' = "sync"
       ELSE \E o \in {"ok", "corrupt", ErrIO} :
            LET chunk == tr.inData[tr.pos + 1]
                written == IF o = "corrupt" THEN Corrupted(chunk) ELSE chunk
            IN  IF o = ErrIO THEN fs' = fs /\ Fail(ErrIO)
                ELSE /\ fs' = [fs EXCEPT ![tr.workingFile].data = Append(@, written)]
                     /\ tr' = [tr EXCEPT !.pos = @ + 1,
                                         !.srcHasher = HashWrite(@, chunk),
                                         !.dstHasher = HashWrite(@, written)]
                     /\ pc' = "copy"
    /\ UNCHANGED <<Env, Walker>>

\* out.Sync()
SyncOut ==
    /\ pc = "sync"
    /\ \E o \in CallOutcomes : IF o = "ok" THEN tr' = tr /\ pc' = "closeIn" ELSE Fail(ErrIO)
    /\ UNCHANGED <<Env, fs, Walker>>

\* in.Close()
CloseIn ==
    /\ pc = "closeIn"
    /\ \E o \in CallOutcomes : IF o = "ok" THEN tr' = tr /\ pc' = "closeOut" ELSE Fail(ErrIO)
    /\ UNCHANGED <<Env, fs, Walker>>

\* out.Close()
CloseOut ==
    /\ pc = "closeOut"
    /\ \E o \in CallOutcomes : IF o = "ok" THEN tr' = tr /\ pc' = "hash" ELSE Fail(ErrIO)
    /\ UNCHANGED <<Env, fs, Walker>>

\* A comparison that accepts any two digests.
SameHash_Always(a, b) == TRUE

\* The comparison of two digests (srcHash != dstHash, srcHash != verifyHash).
SameHash(a, b) == a = b

\* The two sums are taken and not compared.
CompareHashes_NoCheck ==
    /\ pc = "hash"
    /\ tr' = [tr EXCEPT !.srcHash = tr.srcHasher, !.dstHash = tr.dstHasher]
    /\ pc' = "rename"
    /\ UNCHANGED <<Env, fs, Walker>>

\* srcHash, dstHash := the two sums; a difference is errMemoryHashMismatch.
CompareHashes ==
    /\ pc = "hash"
    /\ IF ~SameHash(tr.srcHasher, tr.dstHasher)
       THEN /\ tr' = [tr EXCEPT !.srcHash = tr.srcHasher, !.dstHash = tr.dstHasher,
                                !.retErr = ErrMemoryHashMismatch, !.failedAt = pc]
            /\ pc' = "cleanup"
       ELSE /\ tr' = [tr EXCEPT !.srcHash = tr.srcHasher, !.dstHash = tr.dstHasher]
            /\ pc' = "rename"
    /\ UNCHANGED <<Env, fs, Walker>>

\* A rename after which workingFile still names the temporary path.
Retarget_Keep(t) == t

\* The statement after a successful rename: workingFile = dst.
Retarget(t) == [t EXCEPT !.workingFile = t.dst]

\* A rename that gives up the source as soon as it is tried.
RenameWorkingFile_SourceFirst ==
    /\ pc = "rename"
    /\ \E o \in RenameOutcomes(fs, tr.workingFile, tr.dst) :
        IF o = "ok"
        THEN /\ fs' = RenameFile(fs, tr.workingFile, tr.dst)
             /\ tr' = Retarget(tr)
             /\ pc' = IF opts.Verify THEN "vopen" ELSE "remove"
        ELSE fs' = Del(fs, tr.src) /\ Fail(ErrIO)
    /\ UNCHANGED <<Env, Walker>>

\* prog.fsys.Rename(workingFile, dst); workingFile = dst
RenameWorkingFile ==
    /\ pc = "rename"
    /\ \E o \in RenameOutcomes(fs, tr.workingFile, tr.dst) :
        IF o = "ok"
        THEN /\ fs' = RenameFile(fs, tr.workingFile, tr.dst)
             /\ tr' = Retarget(tr)
             /\ pc' = IF opts.Verify THEN "vopen" ELSE "remove"
        ELSE fs' = fs /\ Fail(ErrIO)
    /\ UNCHANGED <<Env, Walker>>

\* verifier, err := prog.fsys.Open(workingFile)
VerifyOpen ==
    /\ pc = "vopen"
    /\ \E o \in OpenOutcomes(fs, tr.workingFile) :
        IF o = "ok"
        THEN tr' = [tr EXCEPT !.vData = fs[tr.workingFile].data] /\ pc' = "vread"
        ELSE Fail(ErrIO)
    /\ UNCHANGED <<Env, fs, Walker>>

\* One round of io.Copy(verifyHasher, ctxReader).
VerifyRead ==
    /\ pc = "vread"
    /\ IF ReaderCancelled THEN Fail(ErrCanceled)
       ELSE IF tr.vpos = Len(tr.vData) THEN tr' = tr /\ pc' = "vclose"
       ELSE \E o \in CallOutcomes :
            IF o = ErrIO THEN Fail(ErrIO)
            ELSE /\ tr' = [tr EXCEPT !.vpos = @ + 1,
                                     !.verifyHasher = HashWrite(@, tr.vData[tr.vpos + 1])]
                 /\ pc' = "vread"
    /\ UNCHANGED <<Env, fs, Walker>>

\* verifier.Close()
VerifyClose ==
    /\ pc = "vclose"
    /\ \E o \in CallOutcomes : IF o = "ok" THEN tr' = tr /\ pc' = "vhash" ELSE Fail(ErrIO)
    /\ UNCHANGED <<Env, fs, Walker>>

\* A verify pass that comes after the removal of the source: on a mismatch
\* the source is gone.
VerifyCompare_SourceGone ==
    /\ pc = "vhash"
    /\ IF ~SameHash(tr.srcHash, tr.verifyHasher)
       THEN /\ tr' = [tr EXCEPT !.verifyHash = tr.verifyHasher,
                                !.retErr = ErrVerifyHashMismatch, !.failedAt = pc]
            /\ fs' = Del(fs, tr.src)
            /\ pc' = "cleanup"
       ELSE tr' = [tr EXCEPT !.verifyHash = tr.verifyHasher] /\ fs' = fs /\ pc' = "remove"
    /\ UNCHANGED <<Env, Walker>>

\* verifyHash := the sum; a difference from srcHash is errVerifyHashMismatch.
VerifyCompare ==
    /\ pc = "vhash"
    /\ IF ~SameHash(tr.srcHash, tr.verifyHasher)
       THEN tr' = [tr EXCEPT !.verifyHash = tr.verifyHasher,
                             !.retErr = ErrVerifyHashMismatch, !.failedAt = pc]
            /\ pc' = "cleanup"
       ELSE tr' = [tr EXCEPT !.verifyHash = tr.verifyHasher] /\ pc' = "remove"
    /\ UNCHANGED <<Env, fs, Walker>>

\* prog.fsys.Remove(src), then return nil.
RemoveSource ==
    /\ pc = "remove"
    /\ \E o \in RemoveOutcomes(fs, tr.src) :
        IF o = "ok"
        THEN fs' = Del(fs, tr.src) /\ tr' = tr /\ pc' = "ret"
        ELSE fs' = fs /\ Fail(ErrIO)
    /\ UNCHANGED <<Env, Walker>>

\* A cleanup that removes the source.
CleanupTarget_Src(t) == t.src

\* A cleanup that always removes the temporary path.
CleanupTarget_Tmp(t) == WorkingFile(t.dst)

\* The path the deferred cleanup removes: the closure reads workingFile when
\* it runs.
CleanupTarget(t) == t.workingFile

\* A cleanup that never removes, and one that removes whatever Stat(src) said.
CleanupMayRemove_Never(st) == FALSE
CleanupMayRemove_Always(st) == TRUE

\* The cleanup removes its target only after Stat(src) succeeded.
CleanupMayRemove(st) == st = "ok"

\* The deferred cleanup, run because retErr != nil.
Cleanup ==
    /\ pc = "cleanup"
    /\ \E st \in StatOutcomes(fs, tr.src), rm \in RemoveOutcomes(fs, CleanupTarget(tr)) :
        /\ fs' = IF CleanupMayRemove(st) /\ rm = "ok" THEN Del(fs, CleanupTarget(tr)) ELSE fs
        /\ tr' = [tr EXCEPT !.cleanup =
                    [stat |-> st, remove |-> IF CleanupMayRemove(st) THEN rm ELSE "none"]]
    /\ pc' = "ret"
    /\ UNCHANGED <<Env, Walker>>

----------------------------------------------------------------------------
(* The environment *)

Alive == pc \notin {"done", "killed"}
Running == Alive /\ pc # "start"

\* The interrupt signal: main calls cancel().
Cancel ==
    /\ Alive
    /\ ~cancelled
    /\ cancelled' = TRUE
    /\ UNCHANGED <<opts, fs, pc, stack, tr, state, result, runs, ext, pre, fs0, hist, killed,
                   failed>>

StagingFiles == { p \in DOMAIN fs : IsFile(fs, p) /\ Len(p) > Len(opts.MirrorRoot)
                                    /\ SubSeq(p, 1, Len(opts.MirrorRoot)) = opts.MirrorRoot }

\* Another process removes a file of the staging tree.
ExtRemove ==
    /\ Running
    /\ Cardinality(ext) < MaxExt
    /\ \E p \in StagingFiles :
        /\ fs' = Del(fs, p)
        /\ ext' = ext \cup {p}
    /\ UNCHANGED <<opts, cancelled, pc, stack, tr, state, result, runs, pre, fs0, hist, killed,
                   failed>>

\* What another process leaves in a file it rewrites.
Rewritten == <<0>>

\* Another process rewrites the committed destination, before the verify pass
\* opens it or before the source is removed.
ExtWrite ==
    /\ pc \in {"vopen", "remove"}
    /\ Cardinality(ext) < MaxExt
    /\ IsFile(fs, tr.dst)
    /\ fs' = Put(fs, tr.dst, FileNode(Rewritten))
    /\ ext' = ext \cup {tr.dst}
    /\ UNCHANGED <<opts, cancelled, pc, stack, tr, state, result, runs, pre, fs0, hist, killed,
                   failed>>

\* The steps of copyAndRemove between the rename onto dst and the removal of src.
Committed == {"vopen", "vread", "vclose", "vhash", "remove"}

\* The process is killed between the commit and the removal of the source
\* (main's exit after exitTimeout, or a kill from outside).  Nothing deferred
\* runs, the process's memory is gone, the filesystem stays as it is.
Kill ==
    /\ pc \in Committed
    /\ runs < MaxRuns
    /\ pc' = "killed"
    /\ killed' = [at |-> "committed", src |-> tr.src, dst |-> tr.dst, fs |-> fs]
    /\ cancelled' = FALSE
    /\ stack' = <<>>
    /\ tr' = NoTransfer
    /\ state' = [hasUnmovedFiles |-> FALSE, hasPartialFailures |-> FALSE]
    /\ pre' = fs
    /\ fs0' = fs
    /\ hist' = NoHist
    /\ failed' = {}
    /\ UNCHANGED <<opts, fs, result, runs, ext>>

\* The operator runs the same command again.
Restart ==
    /\ pc = "killed"
    /\ pc' = "start"
    /\ runs' = runs + 1
    /\ UNCHANGED <<opts, fs, cancelled, stack, tr, state, result, ext, pre, fs0, hist, killed,
                   failed>>

\* The operator runs the same command again after a run in which a verify
\* pass failed.
Rerun ==
    /\ pc = "done"
    /\ killed.at \in {"verify", "verify_kept"}
    /\ runs < MaxRuns
    /\ pc' = "start"
    /\ runs' = runs + 1
    /\ killed' = [killed EXCEPT !.at = IF @ = "verify" THEN "rerun" ELSE "rerun_kept"]
    /\ cancelled' = FALSE
    /\ stack' = <<>>
    /\ tr' = NoTransfer
    /\ state' = [hasUnmovedFiles |-> FALSE, hasPartialFailures |-> FALSE]
    /\ result' = "none"
    /\ ext' = {}
    /\ pre' = fs
    /\ fs0' = fs
    /\ hist' = NoHist
    /\ failed' = {}
    /\ UNCHANGED <<opts, fs>>

Next ==
    \/ Start
    \/ WalkCancelled
    \/ WalkEntryGone
    \/ SkipSrcExcluded
    \/ SkipMirrorIntoMirror
    \/ SkipDstExcluded
    \/ VisitDir
    \/ FileExists
    \/ FileStatError
    \/ FileDryRun
    \/ FileDirect
    \/ FileCopy
    \/ CopyReturn
    \/ OpenSource
    \/ CreateWorkingFile
    \/ CopyChunk
    \/ SyncOut
    \/ CloseIn
    \/ CloseOut
    \/ CompareHashes
    \/ RenameWorkingFile
    \/ VerifyOpen
    \/ VerifyRead
    \/ VerifyClose
    \/ VerifyCompare
    \/ RemoveSource
    \/ Cleanup
    \/ Cancel
    \/ ExtRemove
    \/ ExtWrite
    \/ Kill
    \/ Restart

Spec == Init /\ [][Next]_vars

----------------------------------------------------------------------------
(* Runs with a staging root whose name begins with two dots, below an        *)
(* excluded directory; no other process, no interrupt, no --verify.          *)

DotsConfigs ==
    { [MirrorRoot |-> <<"x", "..x">>, RealRoot |-> <<"real">>,
       Excludes |-> <<<<"x">>, <<"x", "..x", "e">>, <<"real", "d">>>>,
       Direct |-> di, Verify |-> FALSE, SkipFailed |-> sf, DryRun |-> dr] :
        di \in BOOLEAN, sf \in BOOLEAN, dr \in BOOLEAN }

InitDots == InitWith(DotsConfigs)

NextDots ==
    \/ Start
    \/ SkipSrcExcluded
    \/ SkipDstExcluded
    \/ VisitDir
    \/ FileExists
    \/ FileStatError
    \/ FileDryRun
    \/ FileDirect
    \/ FileCopy
    \/ CopyReturn
    \/ OpenSource
    \/ CreateWorkingFile
    \/ CopyChunk
    \/ SyncOut
    \/ CloseIn
    \/ CloseOut
    \/ CompareHashes
    \/ RenameWorkingFile
    \/ RemoveSource
    \/ Cleanup

SpecDots == InitDots /\ [][NextDots]_vars

----------------------------------------------------------------------------
(* Runs with the protected root in the staging tree; no other process, no    *)
(* interrupt, no --verify.                                                   *)

InsideConfigs ==
    { [MirrorRoot |-> <<"mirror">>, RealRoot |-> <<"mirror", "real">>, Excludes |-> <<>>,
       Direct |-> di, Verify |-> FALSE, SkipFailed |-> sf, DryRun |-> dr] :
        di \in BOOLEAN, sf \in BOOLEAN, dr \in BOOLEAN }

\* The staging tree with the protected root in it: a staged file, with and
\* without its target; a staged directory with a file.
InsideTrees(c) ==
    { (c.MirrorRoot :> DirNode) @@ (c.RealRoot :> DirNode) @@ t :
        t \in { Graft(c.MirrorRoot, <<"a">> :> FileNode(<<1>>)),
                Graft(c.MirrorRoot, <<"a">> :> FileNode(<<1>>))
                    @@ Graft(c.RealRoot, <<"a">> :> FileNode(<<3>>)),
                Graft(c.MirrorRoot, (<<"d">> :> DirNode) @@ (<<"d", "a">> :> FileNode(<<1>>))) } }

InitInside ==
    /\ opts \in InsideConfigs
    /\ fs \in InsideTrees(opts)
    /\ cancelled = FALSE
    /\ pc = "start"
    /\ stack = <<>>
    /\ tr = NoTransfer
    /\ state = [hasUnmovedFiles |-> FALSE, hasPartialFailures |-> FALSE]
    /\ result = "none"
    /\ runs = 1
    /\ ext = {}
    /\ pre = fs
    /\ fs0 = fs
    /\ hist = NoHist
    /\ killed = NotKilled
    /\ failed = {}

\* The callback for a directory, followed down to paths of MaxDepth segments.
VisitDirWithin == pc = "walk" /\ Len(CurPath) <= MaxDepth /\ VisitDir

NextInside ==
    \/ Start
    \/ VisitDirWithin
    \/ FileExists
    \/ FileStatError
    \/ FileDryRun
    \/ FileDirect
    \/ FileCopy
    \/ CopyReturn
    \/ OpenSource
    \/ CreateWorkingFile
    \/ CopyChunk
    \/ SyncOut
    \/ CloseIn
    \/ CloseOut
    \/ CompareHashes
    \/ RenameWorkingFile
    \/ RemoveSource
    \/ Cleanup

SpecInside == InitInside /\ [][NextInside]_vars

----------------------------------------------------------------------------
(* Runs with --verify that the operator repeats after a failed verify pass;  *)
(* the other process rewrites a committed destination, nothing is excluded,  *)
(* no interrupt and no kill.                                                 *)

RerunConfigs ==
    { [MirrorRoot |-> <<"mirror">>, RealRoot |-> <<"real">>, Excludes |-> <<>>,
       Direct |-> di, Verify |-> TRUE, SkipFailed |-> sf, DryRun |-> FALSE] :
        di \in BOOLEAN, sf \in BOOLEAN }

InitRerun == InitWith(RerunConfigs)

NextRerun ==
    \/ Start
    \/ VisitDir
    \/ FileExists
    \/ FileStatError
    \/ FileDirect
    \/ FileCopy
    \/ CopyReturn
    \/ OpenSource
    \/ CreateWorkingFile
    \/ CopyChunk
    \/ SyncOut
    \/ CloseIn
    \/ CloseOut
    \/ CompareHashes
    \/ RenameWorkingFile
    \/ VerifyOpen
    \/ VerifyRead
    \/ VerifyClose
    \/ VerifyCompare
    \/ RemoveSource
    \/ Cleanup
    \/ ExtWrite
    \/ Rerun

SpecRerun == InitRerun /\ [][NextRerun]_vars

----------------------------------------------------------------------------
(* Init mode: createMirrorStructure                                          *)

ErrMirrorParentNotExist == "errMirrorParentNotExist"
ErrMirrorParentNotDir == "errMirrorParentNotDir"
ErrMirrorNotEmpty == "errMirrorNotEmpty"

\* --init-depth: no limit, or the directories directly below the root.
InitDepths == {-1, 0}

InitRootPairs ==
    RootPairs \cup { [MirrorRoot |-> <<"e", "mirror">>, RealRoot |-> <<"real">>] }

InitConfigs ==
    { [Mode |-> "init", MirrorRoot |-> r.MirrorRoot, RealRoot |-> r.RealRoot, Excludes |-> x,
       Direct |-> FALSE, Verify |-> FALSE, SkipFailed |-> sf, DryRun |-> dr,
       InitDepth |-> de] :
        r \in InitRootPairs, x \in {<<>>, <<<<"real", "d">>>>},
        sf \in BOOLEAN, dr \in BOOLEAN, de \in InitDepths }

\* The protected tree below its root: directories d and d/e and a file, or
\* the directory d alone.
RealLayouts ==
    { (<<"d">> :> DirNode) @@ (<<"d", "e">> :> DirNode) @@ (<<"a">> :> FileNode(<<1>>)),
      (<<"d">> :> DirNode) }

\* An existing staging tree below its root: nothing; directories only (one
\* of them named like the staging root); a file in a directory; a file.
MirrorLayouts ==
    { EmptyFs,
      (<<"d">> :> DirNode) @@ (<<"mirror">> :> DirNode),
      (<<"d">> :> DirNode) @@ (<<"d", "a">> :> FileNode(<<1>>)),
      (<<"a">> :> FileNode(<<1>>)) }

\* The directory the staging root is created in, when it is not the
\* filesystem root or the protected root.
ParentOf(c) ==
    IF Dir(c.MirrorRoot) \in {<<>>, c.RealRoot} THEN EmptyFs ELSE (Dir(c.MirrorRoot) :> DirNode)

\* The trees an init run can start on: a protected tree with no staging tree
\* or with an existing one; a staging root whose parent is missing or is a
\* regular file; a staging tree with a file and no protected root.
InitModeTrees(c) ==
    LET reals == { (c.RealRoot :> DirNode) @@ Graft(c.RealRoot, rl) : rl \in RealLayouts }
        withParent == { r @@ ParentOf(c) : r \in reals }
        mirrors == { (c.MirrorRoot :> DirNode) @@ Graft(c.MirrorRoot, ml) : ml \in MirrorLayouts }
    IN  withParent
        \cup { m @@ w : m \in mirrors, w \in withParent }
        \cup (IF ParentOf(c) = EmptyFs THEN {}
              ELSE reals \cup { r @@ (Dir(c.MirrorRoot) :> FileNode(<<1>>)) : r \in reals })
        \cup (IF Dir(c.MirrorRoot) = c.RealRoot THEN {}
              ELSE { ParentOf(c) @@ (c.MirrorRoot :> DirNode)
                         @@ Graft(c.MirrorRoot, <<"a">> :> FileNode(<<1>>)) })

InitInitMode ==
    /\ opts \in InitConfigs
    /\ fs \in InitModeTrees(opts)
    /\ cancelled = FALSE
    /\ pc = "start"
    /\ stack = <<>>
    /\ tr = NoTransfer
    /\ state = [hasUnmovedFiles |-> FALSE, hasPartialFailures |-> FALSE]
    /\ result = "none"
    /\ runs = 1
    /\ ext = {}
    /\ pre = fs
    /\ fs0 = fs
    /\ hist = NoHist
    /\ killed = NotKilled
    /\ failed = {}

\* p is root or lies under it.
AtOrUnder(root, p) == Len(p) >= Len(root) /\ SubSeq(p, 1, Len(root)) = root

\* fsys.RemoveAll(root)
RemoveAll(f, root) == [q \in { r \in DOMAIN f : ~AtOrUnder(root, r) } |-> f[q]]

\* What a RemoveAll that failed can leave: everything, or the root alone.
RemoveAllFailed(f, root) == {f, [q \in { r \in DOMAIN f : r = root \/ ~AtOrUnder(root, r) } |-> f[q]]}

\* An emptiness test that takes every structure for an empty one.
isEmptyStructure_Always(f, path) == TRUE

\* isEmptyStructure(ctx, path), when its walk meets no error: no entry at or
\* below path is something other than a directory.
isEmptyStructure(f, path) == \A q \in DOMAIN f : AtOrUnder(path, q) => f[q].isDir

\* dirDepth(relPath): the separators in the cleaned relative path.
dirDepth(rel) == IF Len(rel) = 0 THEN 0 ELSE Len(rel) - 1

\* mirrorPath := filepath.Join(MirrorRoot, filepath.Rel(RealRoot, path))
MirrorPath(path) == Join(opts.MirrorRoot, Rel(opts.RealRoot, path))

InitFrame == [dir |-> Dir(opts.RealRoot), names |-> <<Base(opts.RealRoot)>>]

InitEnv == <<opts, cancelled, runs, ext, fs0, killed, tr, pre>>

\* Stat of the directory the staging root lies in; the filesystem root is a
\* directory that is always there.
StatParent(f, p) ==
    IF p = <<>> THEN "dir"
    ELSE IF Stat(f, p) # "ok" THEN Stat(f, p)
    ELSE IF f[p].isDir THEN "dir" ELSE "file"

\* The checks of the protected root, of the staging root's parent and of
\* the staging root.
InitChecks ==
    /\ pc = "start"
    /\ \E t \in StatOutcomes(fs, opts.RealRoot),
          q \in {StatParent(fs, Dir(opts.MirrorRoot)), ErrIO},
          m \in StatOutcomes(fs, opts.MirrorRoot) :
        IF t = "notexist" THEN Finish(ErrTargetNotExist)
        ELSE IF t = ErrIO THEN Finish(ErrIO)
        ELSE IF q = "notexist" THEN Finish(ErrMirrorParentNotExist)
        ELSE IF q = ErrIO THEN Finish(ErrIO)
        ELSE IF q = "file" THEN Finish(ErrMirrorParentNotDir)
        ELSE IF m = "ok" THEN pc' = "empty" /\ stack' = stack /\ result' = result
        ELSE IF m = "notexist" THEN pc' = "mkroot" /\ stack' = stack /\ result' = result
        ELSE Finish(ErrIO)
    /\ Note(<<>>, "start")
    /\ UNCHANGED <<InitEnv, fs, state, failed>>

\* The staging root exists: it is removed if its structure holds no file,
\* and left alone in a dry run.
InitRemoveMirror ==
    /\ pc = "empty"
    /\ \E w \in CallOutcomes, rm \in CallOutcomes :
        IF CtxCheck THEN fs' = fs /\ Finish(ErrCanceled)
        ELSE IF w = ErrIO THEN fs' = fs /\ Finish(ErrIO)
        ELSE IF ~isEmptyStructure(fs, opts.MirrorRoot)
        THEN fs' = fs /\ Finish(ErrMirrorNotEmpty)
        ELSE IF opts.DryRun THEN fs' = fs /\ pc' = "mkroot" /\ stack' = stack /\ result' = result
        ELSE IF rm = "ok"
        THEN /\ fs' = RemoveAll(fs, opts.MirrorRoot)
             /\ pc' = "mkroot" /\ stack' = stack /\ result' = result
        ELSE fs' \in RemoveAllFailed(fs, opts.MirrorRoot) /\ Finish(ErrIO)
    /\ Note(opts.MirrorRoot, "empty_test")
    /\ UNCHANGED <<InitEnv, state, failed>>

\* The staging root is created, and afero.Walk is called on the protected
\* root.
InitCreateMirror ==
    /\ pc = "mkroot"
    /\ \E mk \in MkdirOutcomes(fs, opts.MirrorRoot) :
        IF opts.DryRun
        THEN fs' = fs /\ pc' = "walk" /\ stack' = <<InitFrame>> /\ result' = result
        ELSE IF mk = "ok"
        THEN /\ fs' = Put(fs, opts.MirrorRoot, DirNode)
             /\ pc' = "walk" /\ stack' = <<InitFrame>> /\ result' = result
        ELSE fs' = fs /\ Finish(ErrIO)
    /\ Note(opts.MirrorRoot, "mirror_created")
    /\ UNCHANGED <<InitEnv, state, failed>>

InitWalkCancelled ==
    /\ pc = "walk"
    /\ CtxCheck
    /\ Finish(ErrCanceled)
    /\ Note(CurPath, "cancelled")
    /\ UNCHANGED <<InitEnv, fs, state, failed>>

\* Files are of no interest in this mode.
InitSkipFile ==
    /\ Visiting
    /\ ~fs[CurPath].isDir
    /\ CallbackReturn("nil", FALSE)
    /\ Note(CurPath, "file")
    /\ UNCHANGED <<InitEnv, fs, state, failed>>

\* A walk that does not know the staging root.
IsMirrorRoot_Never(path) == FALSE

\* path == prog.opts.MirrorRoot
IsMirrorRoot(path) == path = opts.MirrorRoot

\* The staging root lies in the protected tree: not mirrored, not descended.
InitSkipMirrorRoot ==
    /\ Visiting
    /\ fs[CurPath].isDir
    /\ IsMirrorRoot(CurPath)
    /\ CallbackReturn(SkipDir, TRUE)
    /\ Note(CurPath, "is_mirror_root")
    /\ UNCHANGED <<InitEnv, fs, state, failed>>

InitSkipExcluded ==
    /\ Visiting
    /\ fs[CurPath].isDir
    /\ ~IsMirrorRoot(CurPath)
    /\ isExcluded(CurPath, opts.Excludes)
    /\ CallbackReturn(SkipDir, TRUE)
    /\ Note(CurPath, "is_user_excluded")
    /\ UNCHANGED <<InitEnv, fs, state, failed>>

\* Past the guards of the staging root and of the exclusions.
InitEligible ==
    /\ Visiting
    /\ fs[CurPath].isDir
    /\ ~IsMirrorRoot(CurPath)
    /\ ~isExcluded(CurPath, opts.Excludes)

ExceedsInitDepth(path) ==
    opts.InitDepth >= 0 /\ dirDepth(Rel(opts.RealRoot, path)) > opts.InitDepth

InitSkipDepth ==
    /\ InitEligible
    /\ ExceedsInitDepth(CurPath)
    /\ CallbackReturn(SkipDir, TRUE)
    /\ Note(CurPath, "exceeds_init_depth")
    /\ UNCHANGED <<InitEnv, fs, state, failed>>

\* A directory to mirror: its counterpart is created in the staging tree
\* (the staging root was created before the walk), then walk reads its
\* names and descends, or calls the callback again with the error of the
\* read.
InitVisitDir ==
    /\ InitEligible
    /\ ~ExceedsInitDepth(CurPath)
    /\ LET p == CurPath
           mp == MirrorPath(CurPath)
       IN \E mk \in MkdirOutcomes(fs, mp), rd \in CallOutcomes :
            LET create == mp # opts.MirrorRoot /\ ~opts.DryRun
                broken == create /\ mk = ErrIO
                fs1 == IF create /\ mk = "ok" THEN Put(fs, mp, DirNode) ELSE fs
                we == IF broken THEN walkError(TRUE, ErrIO, state)
                      ELSE [ret |-> "nil", state |-> state]
                we2 == walkError(TRUE, ErrIO, state)
            IN  /\ fs' = fs1
                /\ IF broken
                   THEN /\ state' = we.state
                        /\ CallbackReturn(we.ret, TRUE)
                        /\ Note(p, "dir_error")
                        /\ Failed(p, ErrIO)
                   ELSE IF rd = "ok"
                   THEN /\ state' = state
                        /\ Continue(<<[dir |-> p, names |-> readDirNames(fs1, p)]>> \o Advanced)
                        /\ Note(p, "dir_created")
                        /\ failed' = failed
                   ELSE /\ state' = we2.state
                        /\ LoopReturn(we2.ret, TRUE)
                        /\ Note(p, "walk_error")
                        /\ Failed(p, ErrIO)
    /\ UNCHANGED InitEnv

NextInitMode ==
    \/ InitChecks
    \/ InitRemoveMirror
    \/ InitCreateMirror
    \/ InitWalkCancelled
    \/ InitSkipFile
    \/ InitSkipMirrorRoot
    \/ InitSkipExcluded
    \/ InitSkipDepth
    \/ InitVisitDir
    \/ Cancel

SpecInitMode == InitInitMode /\ [][NextInitMode]_vars

\* Init runs over a protected root whose name begins with two dots, below an
\* excluded directory, with the staging root in the protected tree.
InitDotsConfigs ==
    { [Mode |-> "init", MirrorRoot |-> <<"x", "..x", "mirror">>, RealRoot |-> <<"x", "..x">>,
       Excludes |-> x, Direct |-> FALSE, Verify |-> FALSE, SkipFailed |-> sf, DryRun |-> dr,
       InitDepth |-> de] :
        x \in {<<<<"x">>>>, <<<<"x">>, <<"x", "..x", "d", "e">>>>},
        sf \in BOOLEAN, dr \in BOOLEAN, de \in InitDepths }

InitInitDots ==
    /\ opts \in InitDotsConfigs
    /\ fs \in InitModeTrees(opts)
    /\ cancelled = FALSE
    /\ pc = "start"
    /\ stack = <<>>
    /\ tr = NoTransfer
    /\ state = [hasUnmovedFiles |-> FALSE, hasPartialFailures |-> FALSE]
    /\ result = "none"
    /\ runs = 1
    /\ ext = {}
    /\ pre = fs
    /\ fs0 = fs
    /\ hist = NoHist
    /\ killed = NotKilled
    /\ failed = {}

SpecInitDots == InitInitDots /\ [][NextInitMode]_vars

\* lstat of the entry failed with ErrNotExist: the callback skips it.
InitEntryGone ==
    /\ pc = "walk"
    /\ ~CtxCheck
    /\ ~Exists(fs, CurPath)
    /\ Continue(Advanced)
    /\ Note(CurPath, "no_longer_exists")
    /\ UNCHANGED <<InitEnv, fs, state, failed>>

\* Init runs with the protected root in the staging tree.
InitInsideConfigs ==
    { [Mode |-> "init", MirrorRoot |-> <<"mirror">>, RealRoot |-> <<"mirror", "real">>,
       Excludes |-> x, Direct |-> FALSE, Verify |-> FALSE, SkipFailed |-> sf, DryRun |-> dr,
       InitDepth |-> de] :
        x \in {<<>>, <<<<"mirror", "real", "d", "e">>>>},
        sf \in BOOLEAN, dr \in BOOLEAN, de \in InitDepths }

\* A staging tree that holds the protected tree: directories only, or a
\* file as well.
InitInsideTrees(c) ==
    { (c.MirrorRoot :> DirNode) @@ (c.RealRoot :> DirNode) @@ Graft(c.RealRoot, rl) :
        rl \in RealLayouts \cup { (<<"d">> :> DirNode) @@ (<<"d", "e">> :> DirNode) } }

InitInitInside ==
    /\ opts \in InitInsideConfigs
    /\ fs \in InitInsideTrees(opts)
    /\ cancelled = FALSE
    /\ pc = "start"
    /\ stack = <<>>
    /\ tr = NoTransfer
    /\ state = [hasUnmovedFiles |-> FALSE, hasPartialFailures |-> FALSE]
    /\ result = "none"
    /\ runs = 1
    /\ ext = {}
    /\ pre = fs
    /\ fs0 = fs
    /\ hist = NoHist
    /\ killed = NotKilled
    /\ failed = {}

NextInitInside ==
    \/ InitChecks
    \/ InitRemoveMirror
    \/ InitCreateMirror
    \/ InitWalkCancelled
    \/ InitEntryGone
    \/ InitSkipExcluded
    \/ InitSkipDepth
    \/ InitVisitDir
    \/ Cancel

SpecInitInside == InitInitInside /\ [][NextInitInside]_vars

----------------------------------------------------------------------------
(* run: the exit code of a finished run *)

exitCodeSuccess == 0
exitCodeFailure == 1
exitCodePartialFailure == 2
exitCodeMirrNotEmpty == 3
exitCodeUnmovedFiles == 4

\* An exit code that looks at the unmoved files bit first.
runExitCode_UnmovedFirst(res, st) ==
    IF res # "nil" THEN exitCodeFailure
    ELSE IF st.hasUnmovedFiles THEN exitCodeUnmovedFiles
    ELSE IF st.hasPartialFailures THEN exitCodePartialFailure
    ELSE exitCodeSuccess

\* An exit code that does not look at the unmoved files bit.
runExitCode_NoUnmoved(res, st) ==
    IF res # "nil" THEN exitCodeFailure
    ELSE IF st.hasPartialFailures THEN exitCodePartialFailure
    ELSE exitCodeSuccess

\* run(): moveFiles returned res and left the flags st.
runExitCode(res, st) ==
    IF res # "nil" THEN exitCodeFailure
    ELSE IF st.hasPartialFailures THEN exitCodePartialFailure
    ELSE IF st.hasUnmovedFiles THEN exitCodeUnmovedFiles
    ELSE exitCodeSuccess

\* run() in init mode: createMirrorStructure returned res and left the flags st.
runInitExitCode(res, st) ==
    IF res = ErrMirrorNotEmpty THEN exitCodeMirrNotEmpty
    ELSE runExitCode(res, st)

TypeOK ==
    /\ pc \in {"start", "walk", "open", "create", "copy", "sync", "closeIn", "closeOut",
               "hash", "rename", "vopen", "vread", "vclose", "vhash", "remove",
               "cleanup", "ret", "done", "killed"}
    /\ cancelled \in BOOLEAN
    /\ state \in [hasUnmovedFiles : BOOLEAN, hasPartialFailures : BOOLEAN]

----------------------------------------------------------------------------
(* Properties *)

\* copyAndRemove has returned to the callback.
Returned == pc = "ret"
ReturnedError == Returned /\ tr.retErr # "nil"

\* The steps of the verify pass.
VerifySteps == {"vopen", "vread", "vclose", "vhash"}

\* The cleanup found the source and removed its target.
CleanupRemoved == tr.cleanup.stat = "ok" /\ tr.cleanup.remove = "ok"

\* The cleanup could not stat the source, or its Remove failed.
CleanupKept == tr.cleanup.stat # "ok" \/ tr.cleanup.remove = ErrIO

\* Nothing is at the temporary path or at dst that was not there at the call.
NoNewArtifact ==
    \A q \in {WorkingFile(tr.dst), tr.dst} : Exists(fs, q) => Exists(pre, q)

\* A step of the walker at the entry it is about to visit.
WalkerStep == pc = "walk" /\ (pc' # pc \/ stack' # stack)

\* C1: when copyAndRemove returns nil (and no other process touched src or
\* dst), src is gone, dst is a file with the content src had at the call, and
\* nothing is left at dst + ".mirsht".
C1_CopySuccess ==
    (Returned /\ tr.retErr = "nil" /\ tr.src \notin ext /\ tr.dst \notin ext) =>
        /\ ~Exists(fs, tr.src)
        /\ IsFile(fs, tr.dst)
        /\ fs[tr.dst].data = pre[tr.src].data
        /\ ~Exists(fs, WorkingFile(tr.dst))

C1_Witness ==
    /\ Returned /\ tr.retErr = "nil" /\ ext = {}
    /\ ~opts.Verify
    /\ IsFile(fs, tr.dst) /\ Len(fs[tr.dst].data) >= 2

\* C2: when copyAndRemove returns an error, at whatever step, and no other
\* process touched src, src still exists with the content it had at the call.
C2_FailureKeepsSource ==
    (ReturnedError /\ Exists(pre, tr.src) /\ tr.src \notin ext) =>
        Exists(fs, tr.src) /\ fs[tr.src] = pre[tr.src]

C2_Witness ==
    /\ ReturnedError /\ tr.retErr = ErrCanceled /\ tr.failedAt = "vread"
    /\ ext = {} /\ IsFile(fs, tr.src)

\* C3 as claimed: after every failed copyAndRemove that leaves src in place,
\* nothing is at the temporary path or at dst that was not there at the call.
C3_NoArtifactAfterFailure ==
    (ReturnedError /\ Exists(fs, tr.src)) => NoNewArtifact

\* C3 as amended: the same, for the failures whose cleanup could stat src and
\* whose removal of the artifact did not itself fail.
C3_NoArtifactWhenCleanupWorks ==
    (ReturnedError /\ Exists(fs, tr.src)
        /\ tr.cleanup.stat # ErrIO /\ tr.cleanup.remove # ErrIO) => NoNewArtifact

C3_Witness ==
    /\ ReturnedError /\ tr.failedAt = "copy" /\ tr.pos > 0
    /\ CleanupRemoved
    /\ Exists(fs, tr.src) /\ ~Exists(fs, WorkingFile(tr.dst)) /\ ~Exists(fs, tr.dst)

\* The walker is about to visit a file that passes the guards and whose
\* target path exists.
AtConflict == Eligible /\ ~fs[CurPath].isDir /\ Exists(fs, MovePath(CurPath))

\* C4: a step of the walker at a file whose target exists (the Stat of the
\* target answering) changes nothing in the filesystem, sets hasUnmovedFiles,
\* sets no partial failure, returns no error and goes on with the next entry.
C4_ConflictLeavesBoth ==
    [][(AtConflict /\ WalkerStep /\ hist'.class # "stat_error") =>
        /\ hist' = [path |-> CurPath, class |-> "target_exists"]
        /\ fs' = fs
        /\ state' = [state EXCEPT !.hasUnmovedFiles = TRUE]
        /\ stack' = Normalise(Advanced)
        /\ IF Normalise(Advanced) = <<>>
           THEN pc' = "done" /\ result' = "nil"
           ELSE pc' = "walk" /\ result' = "none"]_vars

C4_Witness ==
    /\ hist.class = "target_exists" /\ pc = "walk"
    /\ state.hasUnmovedFiles /\ ~state.hasPartialFailures
    /\ fs = fs0

\* C5: after a run was killed between the rename onto dst and the removal of
\* src, the next run (no other process touching either file) keeps dst and src
\* as they were, and when it visits src and Stat answers, it takes the
\* target-exists branch and sets hasUnmovedFiles.
C5_RerunAfterKill ==
    (killed.at = "committed" /\ killed.src \notin ext /\ killed.dst \notin ext) =>
        /\ IsFile(fs, killed.dst) /\ fs[killed.dst] = killed.fs[killed.dst]
        /\ IsFile(fs, killed.src) /\ fs[killed.src] = killed.fs[killed.src]
        /\ (hist.path = killed.src /\ hist.class \notin {"cancelled", "stat_error"}) =>
                hist.class = "target_exists" /\ state.hasUnmovedFiles

C5_Witness ==
    /\ killed.at = "committed" /\ runs = 2 /\ ext = {}
    /\ pc = "done" /\ result = "nil"
    /\ hist = [path |-> killed.src, class |-> "target_exists"]
    /\ state.hasUnmovedFiles
    /\ IsFile(fs, killed.src) /\ IsFile(fs, killed.dst)

\* C6 as claimed: after a failure of the verify pass, src is in place and
\* dst stays committed.
C6_VerifyFailureKeepsDst ==
    (ReturnedError /\ tr.failedAt \in VerifySteps /\ tr.src \notin ext) =>
        Exists(fs, tr.src) /\ IsFile(fs, tr.dst)

\* C6 as amended: after a failure of the verify pass, copyAndRemove returns
\* an error and src is in place with its content; dst is removed by the
\* cleanup, and stays only when the cleanup's Stat of src or its Remove of dst
\* did not succeed.
C6_VerifyFailureRemovesDst ==
    (Returned /\ tr.failedAt \in VerifySteps /\ tr.src \notin ext) =>
        /\ tr.retErr # "nil"
        /\ Exists(fs, tr.src) /\ fs[tr.src] = pre[tr.src]
        /\ Exists(fs, tr.dst) <=> CleanupKept

C6_Witness ==
    /\ Returned /\ tr.retErr = ErrVerifyHashMismatch
    /\ CleanupRemoved
    /\ IsFile(fs, tr.src) /\ ~Exists(fs, tr.dst)

\* C7 as claimed: when Remove(src) fails after the commit, an error is
\* returned and the file is at src and at dst.
C7_RemoveFailureKeepsBoth ==
    (Returned /\ tr.failedAt = "remove" /\ ext = {}) =>
        tr.retErr # "nil" /\ Exists(fs, tr.src) /\ IsFile(fs, tr.dst)

\* C7 as amended: when Remove(src) fails after the commit (src not touched by
\* another process), an error is returned and src is in place; the cleanup
\* then removes the committed dst, which stays only when the cleanup's Stat of
\* src or its Remove of dst did not succeed.
C7_RemoveFailureRemovesDst ==
    (Returned /\ tr.failedAt = "remove" /\ tr.src \notin ext) =>
        /\ tr.retErr # "nil"
        /\ IsFile(fs, tr.src) /\ fs[tr.src] = pre[tr.src]
        /\ IsFile(fs, tr.dst) <=> CleanupKept

C7_Witness ==
    /\ Returned /\ tr.failedAt = "remove" /\ ext = {}
    /\ ~opts.Verify
    /\ CleanupRemoved
    /\ IsFile(fs, tr.src) /\ ~Exists(fs, tr.dst)

\* C8: a cleanup whose Stat of src answers "does not exist" or fails removes
\* nothing: the filesystem, with the temporary file or the destination in it,
\* is as it was before the cleanup.
C8_NoCleanupWithoutSource ==
    [][(pc = "cleanup" /\ pc' = "ret" /\ tr'.cleanup.stat \in {"notexist", ErrIO}) =>
        fs' = fs]_vars

C8_Witness ==
    /\ Returned /\ tr.cleanup.stat = "notexist" /\ tr.failedAt = "copy"
    /\ ~Exists(fs, tr.src) /\ IsFile(fs, WorkingFile(tr.dst))

C10_CancelledEntryUntouched ==
    /\ [][(pc = "walk" /\ cancelled /\ WalkerStep) =>
            /\ pc' = "done"
            /\ result' = ErrCanceled
            /\ fs' = fs
            /\ state' = state
            /\ hist' = [path |-> CurPath, class |-> "cancelled"]]_vars
    /\ []((pc = "done" /\ hist = [path |-> opts.MirrorRoot, class |-> "cancelled"]
            /\ ext = {}) => fs = fs0)

C10_Witness ==
    /\ pc = "done" /\ result = ErrCanceled
    /\ hist = [path |-> opts.MirrorRoot, class |-> "cancelled"]
    /\ fs = fs0 /\ state = [hasUnmovedFiles |-> FALSE, hasPartialFailures |-> FALSE]

----------------------------------------------------------------------------
(* The entries of the staging tree as the run found it *)

UnderMirror(p) ==
    Len(p) > Len(opts.MirrorRoot) /\ SubSeq(p, 1, Len(opts.MirrorRoot)) = opts.MirrorRoot

\* p and the directories above it, up to the mirror root.
UpToRoot(p) == { SubSeq(p, 1, k) : k \in Len(opts.MirrorRoot)..Len(p) }

\* One of the callback's three guards stops at p.
Guarded(p) ==
    \/ isExcluded(p, opts.Excludes)
    \/ MovePath(p) = opts.MirrorRoot
    \/ isExcluded(MovePath(p), opts.Excludes)

\* The files of the staging tree at the start of the run that no guard stops,
\* on the way or at the file, and that have nothing at their target.
PendingFiles ==
    { q \in DOMAIN fs0 :
        /\ UnderMirror(q) /\ IsFile(fs0, q)
        /\ \A a \in UpToRoot(q) : ~Guarded(a)
        /\ ~Exists(fs0, MovePath(q)) }

\* No other process touched q or its target.
Undisturbed(q) == q \notin ext /\ MovePath(q) \notin ext

\* q went from the staging tree to its target.
Moved(q) ==
    /\ ~Exists(fs, q)
    /\ IsFile(fs, MovePath(q))
    /\ fs[MovePath(q)].data = fs0[q].data

\* C11: a failure-tolerant run in which an entry failed with something other
\* than a cancellation, and that was not ended by a cancellation or a
\* skip-directory signal, returns no error with hasPartialFailures set and
\* exits with the partial failure code; every failed entry is still in the
\* staging tree as it was, and (outside dry-run) every other pending file
\* that is not below a failed directory has been moved.
C11_TolerantRunMovesTheRest ==
    (pc = "done" /\ opts.SkipFailed /\ failed # {} /\ result \notin {ErrCanceled, SkipDir}) =>
        /\ result = "nil"
        /\ state.hasPartialFailures
        /\ runExitCode(result, state) = exitCodePartialFailure
        /\ \A p \in failed \ ext : Exists(fs, p) /\ fs[p] = fs0[p]
        /\ ~opts.DryRun =>
            \A q \in PendingFiles :
                (Undisturbed(q) /\ UpToRoot(q) \cap failed = {}) => Moved(q)

C11_Witness ==
    /\ pc = "done" /\ opts.SkipFailed /\ ~opts.DryRun /\ ext = {} /\ runs = 1
    /\ failed = {opts.MirrorRoot \o <<"e">>}
    /\ hist = [path |-> opts.MirrorRoot \o <<"e">>, class |-> "move_failed"]
    /\ IsFile(fs, opts.MirrorRoot \o <<"e">>)
    /\ Moved(opts.MirrorRoot \o <<"d", "a">>)
    /\ runExitCode(result, state) = exitCodePartialFailure

\* C12: without failure-tolerant mode, the step in which an entry fails with
\* something other than a cancellation ends the walk with that error and
\* leaves the flags alone; the finished run has one failed entry, which is
\* the last entry it visited, hasPartialFailures is false and the exit code is
\* the generic failure code.
C12_FirstErrorAborts ==
    /\ [][(~opts.SkipFailed /\ pc # "done" /\ failed' # failed) =>
            /\ pc' = "done"
            /\ result' \notin {"nil", "none", ErrCanceled, SkipDir}
            /\ state' = state]_vars
    /\ []((pc = "done" /\ ~opts.SkipFailed /\ failed # {}) =>
            /\ failed = {hist.path}
            /\ ~state.hasPartialFailures
            /\ runExitCode(result, state) = exitCodeFailure)

C12_Witness ==
    /\ pc = "done" /\ ~opts.SkipFailed /\ ~opts.DryRun /\ ext = {} /\ runs = 1
    /\ failed = {opts.MirrorRoot \o <<"d", "a">>}
    /\ hist.class = "move_failed"
    /\ result = ErrIO
    /\ IsFile(fs, opts.MirrorRoot \o <<"e">>)
    /\ ~Exists(fs, MovePath(opts.MirrorRoot \o <<"e">>))
    /\ runExitCode(result, state) = exitCodeFailure

\* q lies below the directory d.
Below(d, q) == Len(q) > Len(d) /\ SubSeq(q, 1, Len(d)) = d

C14_DigestsAgreeOnSuccess ==
    (Returned /\ tr.retErr = "nil") =>
        /\ tr.srcHash = HashOf(tr.inData)
        /\ tr.dstHash = tr.srcHash
        /\ tr.dst \notin ext => (IsFile(fs, tr.dst) /\ HashOf(fs[tr.dst].data) = tr.dstHash)
        /\ IF opts.Verify
           THEN tr.verifyHash = HashOf(tr.vData) /\ tr.verifyHash = tr.srcHash
           ELSE tr.verifyHash = NoHash

C14_Witness ==
    /\ Returned /\ tr.retErr = "nil" /\ opts.Verify /\ ext = {}
    /\ Len(tr.inData) >= 2
    /\ tr.verifyHash = tr.srcHash /\ tr.srcHash = HashOf(tr.inData)

\* p is an exclusion entry or lies under one.
UnderExclusion(p) ==
    \E i \in 1..Len(opts.Excludes) :
        LET x == opts.Excludes[i]
        IN  Len(p) >= Len(x) /\ SubSeq(p, 1, Len(x)) = x

\* The staging entries of the start of the run whose own path, or whose
\* target path, is an exclusion entry or lies under one.
ExcludedEntries ==
    { q \in DOMAIN fs0 :
        /\ UnderMirror(q)
        /\ UnderExclusion(q) \/ UnderExclusion(MovePath(q)) }

\* C15: an excluded staging entry is never handed to a transfer and stays as
\* it was (no other process removing it), nothing appears at its target path
\* or at its temporary path, and an entry below an excluded directory is
\* never visited.
C15_ExcludedUntouched ==
    \A q \in ExcludedEntries :
        /\ tr.src # q
        /\ q \notin ext => (Exists(fs, q) /\ fs[q] = fs0[q])
        /\ \A t \in {MovePath(q), WorkingFile(MovePath(q))} :
                Exists(fs, t) => (Exists(fs0, t) /\ fs[t] = fs0[t])
        /\ hist.path = q => hist.class \in {"src_excluded", "dst_excluded", "no_longer_exists",
                                            "cancelled"}
        /\ Dir(q) \in ExcludedEntries => hist.path # q

----------------------------------------------------------------------------
(* A staging root inside the protected tree *)

Nested ==
    /\ Len(opts.MirrorRoot) > Len(opts.RealRoot)
    /\ SubSeq(opts.MirrorRoot, 1, Len(opts.RealRoot)) = opts.RealRoot

\* p is the staging root or lies in the staging tree.
InStaging(p) == p = opts.MirrorRoot \/ UnderMirror(p)

\* p is the staging root or a directory above it.
AboveOrAtMirror(p) ==
    Len(p) <= Len(opts.MirrorRoot) /\ SubSeq(opts.MirrorRoot, 1, Len(p)) = p

\* C16: with the staging root inside the protected tree, no transfer is ever
\* started towards the staging root or a path of the staging tree, its
\* temporary file included, and no step creates or rewrites the staging root
\* or anything in the staging tree.
C16_NothingIntoStaging ==
    /\ []((Nested /\ tr # NoTransfer) =>
            (~InStaging(tr.dst) /\ ~InStaging(tr.workingFile)))
    /\ [][Nested =>
            \A q \in DOMAIN fs' :
                InStaging(q) => (q \in DOMAIN fs /\ fs'[q] = fs[q])]_vars

C16_Witness ==
    /\ Nested /\ pc = "done" /\ result = "nil" /\ ~opts.DryRun /\ ext = {}
    /\ hist = [path |-> opts.MirrorRoot \o <<"mirror">>, class |-> "mirror_into_mirror"]
    /\ fs0[opts.MirrorRoot \o <<"mirror">>].isDir
    /\ fs = fs0

\* The entries the callback took past its three guards.
ProcessedClasses ==
    {"dir_created", "dir_exists", "dir_error", "walk_error", "target_exists", "stat_error",
     "would_move", "moved_direct", "copy", "moved_copy", "move_failed"}

----------------------------------------------------------------------------
(* Dry runs *)

\* C18: in a dry run no step of the program changes the filesystem, and as
\* long as no other process has changed it either, every file and directory
\* is as it was at the start of the run.
C18_DryRunMutatesNothing ==
    /\ [][(opts.DryRun /\ ext' = ext) => fs' = fs]_vars
    /\ []((opts.DryRun /\ ext = {}) => fs = fs0)

C18_Witness ==
    /\ opts.DryRun /\ pc = "done" /\ result = "nil" /\ ext = {} /\ failed = {}
    /\ opts.Excludes = <<>>
    /\ hist = [path |-> opts.MirrorRoot \o <<"e">>, class |-> "would_move"]
    /\ Exists(fs0, opts.MirrorRoot \o <<"d">>)
    /\ fs0[opts.MirrorRoot \o <<"d">>].isDir
    /\ ~Exists(fs0, opts.RealRoot \o <<"d">>)
    /\ fs = fs0

\* What the walk does with the staging entry q, read off the trees of the
\* start of the run and the options other than DryRun.
Classify(q) ==
    IF isExcluded(q, opts.Excludes) \/ isExcluded(MovePath(q), opts.Excludes) THEN "excluded"
    ELSE IF MovePath(q) = opts.MirrorRoot THEN "self_containment"
    ELSE IF fs0[q].isDir
         THEN IF Exists(fs0, MovePath(q)) THEN "dir_exists" ELSE "would_create"
         ELSE IF Exists(fs0, MovePath(q)) THEN "conflict" ELSE "would_move"

\* The classification a log line of the walk stands for.
Category ==
    [c \in {"src_excluded", "dst_excluded", "mirror_into_mirror", "target_exists",
            "dir_created", "dir_exists", "would_move", "moved_direct", "copy", "moved_copy"} |->
        CASE c \in {"src_excluded", "dst_excluded"} -> "excluded"
          [] c = "mirror_into_mirror" -> "self_containment"
          [] c = "target_exists" -> "conflict"
          [] c = "dir_created" -> "would_create"
          [] c = "dir_exists" -> "dir_exists"
          [] OTHER -> "would_move"]

\* The staging entries of the start of the run that the walk reaches: no
\* directory above them is stopped by a guard.
Reached0 ==
    { q \in DOMAIN fs0 :
        UnderMirror(q) /\ \A a \in UpToRoot(q) \ {q} : ~Guarded(a) }

\* A first run without fault, interrupt or other process.
Quiet == runs = 1 /\ pc # "killed" /\ ext = {} /\ failed = {} /\ ~cancelled

----------------------------------------------------------------------------
(* Entries removed by another process *)

\* The entry the program is about to look up: the walk's lstat of the next
\* entry, copyAndRemove's Open(src) and its Remove(src).
LooksUpEntry == pc \in {"walk", "open", "remove"}
Entry == IF pc = "walk" THEN CurPath ELSE tr.src

\* Another process removed that entry.
GoneByOther == Entry \in ext /\ ~Exists(fs, Entry)

\* A step of the program, not of its environment.
ProgramStep == (pc' # pc \/ stack' # stack) /\ pc' # "killed"

\* The step records no failure and does not end the run with an error.
NoFailureRecorded ==
    /\ tr'.retErr = tr.retErr
    /\ failed' = failed
    /\ state' = state
    /\ pc' = "done" => result' = "nil"

\* C20 as stated: whenever the program looks up an entry that another process
\* has removed, be it at the walk's lstat or inside the transfer, the step
\* records no failure and does not abort the run.
C20_GoneEntryAnyTime ==
    [][(LooksUpEntry /\ GoneByOther /\ ~cancelled /\ ProgramStep) => NoFailureRecorded]_vars

\* C20, amended: an entry that is gone when the walk comes to it is skipped
\* without a failure and without an abort, in either failure policy; an entry
\* that is removed after the callback received it makes Open(src) or
\* Remove(src) fail, and copyAndRemove returns an error.
C20_GoneEntryAtWalk ==
    /\ [][(pc = "walk" /\ GoneByOther /\ ~cancelled /\ ProgramStep) =>
            (NoFailureRecorded /\ hist' = [path |-> CurPath, class |-> "no_longer_exists"])]_vars
    /\ [][(pc \in {"open", "remove"} /\ ~Exists(fs, tr.src) /\ ProgramStep) =>
            tr'.retErr # "nil"]_vars

C20_Witness ==
    /\ pc = "done" /\ result = "nil" /\ ~opts.SkipFailed /\ ~opts.DryRun
    /\ hist = [path |-> opts.MirrorRoot \o <<"e">>, class |-> "no_longer_exists"]
    /\ ext = {opts.MirrorRoot \o <<"e">>}
    /\ failed = {} /\ ~state.hasPartialFailures
    /\ Exists(fs0, opts.MirrorRoot \o <<"d", "a">>)
    /\ Moved(opts.MirrorRoot \o <<"d", "a">>)

----------------------------------------------------------------------------
(* Exit status *)

\* C21: a file found with something at its target sets the unmoved files
\* bit, the bit stays set for the rest of the run, and a run that returns no
\* error with the bit set and no partial failure exits with the unmoved files
\* code, which is neither the success code nor the failure code.
C21_ConflictExitsUnmoved ==
    /\ [][(hist' # hist /\ hist'.class = "target_exists") => state'.hasUnmovedFiles]_vars
    /\ [][(state.hasUnmovedFiles /\ pc # "done" /\ pc' # "killed") =>
            state'.hasUnmovedFiles]_vars
    /\ []((pc = "done" /\ result = "nil" /\ state.hasUnmovedFiles
              /\ ~state.hasPartialFailures) =>
            /\ runExitCode(result, state) = exitCodeUnmovedFiles
            /\ runExitCode(result, state) \notin {exitCodeSuccess, exitCodeFailure})

C21_Witness ==
    /\ pc = "done" /\ result = "nil" /\ failed = {} /\ ~opts.DryRun
    /\ state.hasUnmovedFiles /\ ~state.hasPartialFailures
    /\ Exists(fs0, opts.MirrorRoot \o <<"e">>) /\ Moved(opts.MirrorRoot \o <<"e">>)
    /\ IsFile(fs, opts.MirrorRoot \o <<"a">>) /\ IsFile(fs, opts.RealRoot \o <<"a">>)
    /\ fs[opts.RealRoot \o <<"a">>] = fs0[opts.RealRoot \o <<"a">>]
    /\ runExitCode(result, state) = exitCodeUnmovedFiles

----------------------------------------------------------------------------
(* A run repeated after a failed verify pass *)

\* The repeated run came to its end without an error, a fault or another
\* process, and found the file of the failed verify pass in the staging tree.
RerunDone ==
    /\ pc = "done" /\ result = "nil" /\ failed = {} /\ ext = {} /\ ~cancelled
    /\ IsFile(fs0, killed.src)

\* The repeated run moved the file of the failed verify pass.
RerunMoved ==
    /\ ~Exists(fs, killed.src)
    /\ IsFile(fs, killed.dst)
    /\ fs[killed.dst].data = fs0[killed.src].data

\* C22 as stated: the run repeated after a failed verify pass moves the file.
C22_RerunMoves ==
    (killed.at \in {"rerun", "rerun_kept"} /\ RerunDone) => RerunMoved

\* C22, amended: when a verify pass has failed, the source is in place with
\* its content.  The repeated run moves the file when the cleanup of the
\* failed transfer had removed the destination; when the cleanup could not
\* (its Stat of the source or its Remove failed), the destination is still
\* there, and the repeated run leaves both files and sets the unmoved files
\* bit.
C22_RerunMovesAfterCleanup ==
    /\ (killed.at \in {"verify", "verify_kept"} /\ killed.src \notin ext) =>
            /\ IsFile(killed.fs, killed.src)
            /\ killed.fs[killed.src] = fs0[killed.src]
            /\ Exists(killed.fs, killed.dst) <=> killed.at = "verify_kept"
    /\ (killed.at = "rerun" /\ RerunDone) => RerunMoved
    /\ (killed.at = "rerun_kept" /\ RerunDone) =>
            /\ IsFile(fs, killed.src) /\ fs[killed.src] = fs0[killed.src]
            /\ IsFile(fs, killed.dst) /\ fs[killed.dst] = fs0[killed.dst]
            /\ state.hasUnmovedFiles

C22_Witness ==
    /\ killed.at = "rerun" /\ RerunDone /\ RerunMoved
    /\ runs = 2 /\ killed.fs = fs0
    /\ ~state.hasUnmovedFiles /\ ~state.hasPartialFailures

----------------------------------------------------------------------------
(* Direct mode *)

\* The step is the callback's, on a file with nothing at its target, and not
\* a failed Stat of the target.
HandlesMovable ==
    /\ pc = "walk" /\ Movable /\ ~opts.DryRun
    /\ pc' # pc \/ stack' # stack
    /\ hist'.class # "stat_error"

\* The step moved the file by a rename of src onto dst: no transfer record,
\* no temporary file, no flag and no failure.
MovedByRename ==
    /\ hist' = [path |-> CurPath, class |-> "moved_direct"]
    /\ fs' = RenameFile(fs, CurPath, MovePath(CurPath))
    /\ tr' = NoTransfer /\ pc' \in {"walk", "done"}
    /\ state' = state /\ failed' = failed
    /\ pc' = "done" => result' = "nil"

\* The step called copyAndRemove for the file and recorded nothing else.
CopyStarted ==
    /\ hist' = [path |-> CurPath, class |-> "copy"]
    /\ pc' = "open" /\ tr'.src = CurPath /\ tr'.dst = MovePath(CurPath)
    /\ tr'.retErr = "nil"
    /\ fs' = fs /\ state' = state /\ failed' = failed /\ result' = result

\* C23: in direct mode the callback either moves the file by the rename
\* alone or, the rename having failed, calls copyAndRemove for the same file
\* without recording an error or a partial failure; outside direct mode it
\* always calls copyAndRemove.
C23_DirectRenameOrCopy ==
    [][HandlesMovable =>
            IF opts.Direct THEN MovedByRename \/ CopyStarted ELSE CopyStarted]_vars

C23_Witness ==
    /\ opts.Direct /\ pc = "done" /\ result = "nil" /\ ext = {}
    /\ failed = {} /\ ~state.hasPartialFailures
    /\ hist = [path |-> opts.MirrorRoot \o <<"e">>, class |-> "moved_copy"]
    /\ Exists(fs0, opts.MirrorRoot \o <<"d", "a">>)
    /\ Moved(opts.MirrorRoot \o <<"d", "a">>) /\ Moved(opts.MirrorRoot \o <<"e">>)

----------------------------------------------------------------------------
(* A temporary file left over from an earlier run *)

\* A regular file was at the temporary path when copyAndRemove was called.
StaleWorkingFile == tr.src # <<>> /\ IsFile(pre, WorkingFile(tr.dst))

\* C24: with a regular file at the temporary path, Create can succeed and
\* then leaves an empty file there; and when copyAndRemove returns nil (no
\* other process having rewritten dst), dst holds the content src had and
\* nothing is at the temporary path.
C24_StaleWorkingFileOverwritten ==
    /\ []((pc = "create" /\ StaleWorkingFile /\ IsFile(fs, tr.workingFile)) =>
            "ok" \in CreateOutcomes(fs, tr.workingFile))
    /\ [][(pc = "create" /\ pc' = "copy" /\ StaleWorkingFile) =>
            fs' = Put(fs, WorkingFile(tr.dst), FileNode(<<>>))]_vars
    /\ []((Returned /\ tr.retErr = "nil" /\ StaleWorkingFile /\ tr.dst \notin ext) =>
            /\ IsFile(fs, tr.dst) /\ fs[tr.dst].data = pre[tr.src].data
            /\ ~Exists(fs, WorkingFile(tr.dst))
            /\ ~Exists(fs, tr.src))

C24_Witness ==
    /\ Returned /\ tr.retErr = "nil" /\ StaleWorkingFile /\ ext = {}
    /\ pre[WorkingFile(tr.dst)].data # pre[tr.src].data
    /\ IsFile(fs, tr.dst) /\ fs[tr.dst].data = pre[tr.src].data
    /\ ~Exists(fs, WorkingFile(tr.dst))

----------------------------------------------------------------------------
(* Target directories *)

\* The directory that holds path p is there.
ParentExists(f, p) == Exists(f, Dir(p)) /\ f[Dir(p)].isDir

----------------------------------------------------------------------------
(* Missing roots *)

\* C26: a run that found no staging root, or no protected root, visits no
\* entry and changes nothing; it ends with errMirrorNotExist, or with
\* errTargetNotExist when only the protected root is missing (or with the
\* error of the Stat call itself when that call fails otherwise), and exits
\* with the failure code.
C26_MissingRootIsFatal ==
    (~Exists(fs0, opts.MirrorRoot) \/ ~Exists(fs0, opts.RealRoot)) =>
        /\ pc \in {"start", "done"}
        /\ fs = fs0 /\ stack = <<>> /\ tr = NoTransfer
        /\ hist.class \in {"none", "start"}
        /\ state = [hasUnmovedFiles |-> FALSE, hasPartialFailures |-> FALSE]
        /\ pc = "done" =>
              /\ result \in {IF Exists(fs0, opts.MirrorRoot) THEN ErrTargetNotExist
                             ELSE ErrMirrorNotExist, ErrIO}
              /\ runExitCode(result, state) = exitCodeFailure

C26_Witness ==
    /\ pc = "done" /\ result = ErrTargetNotExist
    /\ ~Exists(fs0, opts.RealRoot) /\ Exists(fs0, opts.MirrorRoot)
    /\ IsFile(fs, opts.MirrorRoot \o <<"a">>)
    /\ fs = fs0

----------------------------------------------------------------------------
(* Exclusion matching *)

\* The paths isExcluded is asked about: the entries of the tree, and the
\* target paths of the staging entries.
TestedPaths == DOMAIN fs \cup { MovePath(q) : q \in { r \in DOMAIN fs : UnderMirror(r) } }

\* C27: isExcluded(p, E) holds exactly when p is an entry of E or lies under
\* one, segment by segment, so that a sibling of an entry that only shares
\* leading text with it is not excluded.
C27_ExcludedIffUnder ==
    \A p \in TestedPaths : isExcluded(p, opts.Excludes) <=> UnderExclusion(p)

----------------------------------------------------------------------------
(* The cancellable reader *)

\* A step that is a Read through the contextReader: a round of one of the
\* two io.Copy calls of copyAndRemove.
ReadStep ==
    /\ pc \in {"copy", "vread"} /\ pc' # "killed"
    /\ tr' # tr \/ pc' \in {"sync", "vclose"}

\* The Read was handed to the wrapped reader: it gave the next chunk of the
\* file it reads, or the end of the file, or the reader's own error.
Delegated ==
    \/ /\ pc = "copy" /\ tr.pos < Len(tr.inData)
       /\ tr'.pos = tr.pos + 1 /\ tr'.srcHasher = HashWrite(tr.srcHasher, tr.inData[tr.pos + 1])
    \/ /\ pc = "vread" /\ tr.vpos < Len(tr.vData)
       /\ tr'.vpos = tr.vpos + 1
       /\ tr'.verifyHasher = HashWrite(tr.verifyHasher, tr.vData[tr.vpos + 1])
    \/ pc = "copy" /\ tr.pos = Len(tr.inData) /\ tr' = tr /\ pc' = "sync"
    \/ pc = "vread" /\ tr.vpos = Len(tr.vData) /\ tr' = tr /\ pc' = "vclose"
    \/ tr'.retErr = ErrIO /\ tr'.pos = tr.pos /\ tr'.vpos = tr.vpos

\* C28: a Read through the contextReader after the cancellation answers
\* context.Canceled and reads nothing (no position moves, no hasher and no
\* file gets a byte); a Read before the cancellation goes to the wrapped
\* reader unchanged.  A cancellation is never taken back while the process
\* runs.
C28_ReaderHonoursCancellation ==
    /\ [][ (ReadStep /\ cancelled) =>
              /\ tr' = [tr EXCEPT !.retErr = ErrCanceled, !.failedAt = pc]
              /\ pc' = "cleanup"
              /\ fs' = fs ]_vars
    /\ [][ (ReadStep /\ ~cancelled) => Delegated ]_vars
    /\ [][ (cancelled /\ pc # "done" /\ pc' # "killed") => cancelled' ]_vars

C28_Witness ==
    /\ pc = "cleanup" /\ cancelled
    /\ tr.retErr = ErrCanceled /\ tr.failedAt = "copy"
    /\ tr.pos = 1 /\ Len(tr.inData) = 2
    /\ Len(fs[tr.workingFile].data) = 1

----------------------------------------------------------------------------
(* Init mode *)

\* The staging tree the run found holds something that is not a directory.
MirrorHadFile ==
    \E p \in DOMAIN fs0 : AtOrUnder(opts.MirrorRoot, p) /\ ~fs0[p].isDir

\* The staging tree is as the run found it.
StagingAsFound ==
    \A p \in DOMAIN fs \cup DOMAIN fs0 :
        AtOrUnder(opts.MirrorRoot, p) => Exists(fs, p) /\ Exists(fs0, p) /\ fs[p] = fs0[p]

\* C29 as stated: an init run that found a regular file in the staging tree
\* changes nothing in the staging tree and ends with errMirrorNotEmpty and
\* the exit code of a mirror that is not empty, dry run or not.
C29_NonEmptyMirrorStatus ==
    MirrorHadFile =>
        /\ StagingAsFound
        /\ pc = "done" =>
              /\ result = ErrMirrorNotEmpty
              /\ runInitExitCode(result, state) = exitCodeMirrNotEmpty

\* C29, amended: such a run changes nothing at all, never gets to the
\* removal, the creation or the walk, and fails: with errMirrorNotEmpty and
\* its exit code, unless the protected root is missing, a filesystem call
\* failed or the run was interrupted before the emptiness test was over, and
\* then with the exit code of a failure.
C29_NonEmptyMirrorFails ==
    MirrorHadFile =>
        /\ fs = fs0
        /\ pc \in {"start", "empty", "done"}
        /\ pc = "done" =>
              /\ result \in {ErrMirrorNotEmpty, ErrTargetNotExist, ErrIO, ErrCanceled}
              /\ result = ErrTargetNotExist => ~Exists(fs0, opts.RealRoot)
              /\ result = ErrMirrorNotEmpty => Exists(fs0, opts.RealRoot)
              /\ result = ErrCanceled => cancelled
              /\ runInitExitCode(result, state) =
                     IF result = ErrMirrorNotEmpty THEN exitCodeMirrNotEmpty
                     ELSE exitCodeFailure

C29_Witness ==
    /\ pc = "done" /\ result = ErrMirrorNotEmpty /\ ~opts.DryRun
    /\ hist.class = "empty_test"
    /\ IsFile(fs0, opts.MirrorRoot \o <<"d", "a">>)
    /\ fs = fs0

\* The path the staging root would be mirrored to.
MirrorImage == MirrorPath(opts.MirrorRoot)

\* C30: with the staging root in the protected tree, no step of an init run
\* creates the staging root's counterpart in the staging tree or anything
\* below it, and the walk's callback mirrors no entry of the staging tree.
C30_NestedMirrorNotMirrored ==
    /\ [][ Nested => \A p \in DOMAIN fs' : AtOrUnder(MirrorImage, p) => Exists(fs, p) ]_vars
    /\ [](Nested /\ hist.class \in {"dir_created", "dir_error", "walk_error"}
             => ~InStaging(hist.path))

C30_Witness ==
    /\ Nested /\ ~opts.DryRun
    /\ pc = "done" /\ result = "nil"
    /\ hist = [path |-> opts.MirrorRoot, class |-> "is_mirror_root"]
    /\ Exists(fs0, MirrorImage) /\ ~Exists(fs, MirrorImage)
    /\ ~Exists(fs0, opts.MirrorRoot \o <<"d", "e">>)
    /\ Exists(fs, opts.MirrorRoot \o <<"d", "e">>)

----------------------------------------------------------------------------
(* Init mode: what is mirrored *)

\* The directories of the protected tree below its root, the staging tree
\* aside.
RealDirs ==
    { p \in DOMAIN fs0 :
        /\ Len(p) > Len(opts.RealRoot) /\ AtOrUnder(opts.RealRoot, p)
        /\ fs0[p].isDir /\ ~InStaging(p) }

WithinInitDepth(p) ==
    opts.InitDepth < 0 \/ dirDepth(Rel(opts.RealRoot, p)) <= opts.InitDepth

\* The init run went through without an error, absorbed or not.
InitCompleted ==
    pc = "done" /\ result = "nil" /\ ~state.hasPartialFailures /\ ~opts.DryRun

\* C31: no step of an init run creates the counterpart of a directory that
\* is an exclusion entry or lies under one, and after a run that went
\* through every directory that is not excluded and is within the depth
\* limit has its counterpart in the staging tree.
C31_ExcludedNotRecreated ==
    /\ [][ \A p \in RealDirs :
              UnderExclusion(p) /\ Exists(fs', MirrorPath(p)) => Exists(fs, MirrorPath(p)) ]_vars
    /\ [](InitCompleted =>
             \A p \in RealDirs :
                 ~UnderExclusion(p) /\ WithinInitDepth(p) =>
                     Exists(fs, MirrorPath(p)) /\ fs[MirrorPath(p)].isDir)

----------------------------------------------------------------------------
(* The content during a transfer *)

\* copyAndRemove is running, or has returned to the callback.
InTransfer == tr.src # <<>>

\* The regular file at p has the content the source had when the transfer
\* began.
HoldsOriginal(f, p) == IsFile(f, p) /\ IsFile(pre, tr.src) /\ f[p].data = pre[tr.src].data

\* C32: while no other process touches the files, the source's original
\* content is at src or at dst at every point of a transfer, and the step
\* that removes src comes after the rename onto dst and, with --verify,
\* after verifyHash was found equal to srcHash.
C32_ContentAtSrcOrDst ==
    /\ []((InTransfer /\ ext = {}) => HoldsOriginal(fs, tr.src) \/ HoldsOriginal(fs, tr.dst))
    /\ [][ (InTransfer /\ ext' = {} /\ Exists(fs, tr.src) /\ ~Exists(fs', tr.src)) =>
              /\ pc = "remove"
              /\ tr.workingFile = tr.dst
              /\ HoldsOriginal(fs, tr.dst) /\ HoldsOriginal(fs', tr.dst)
              /\ opts.Verify => tr.verifyHash = tr.srcHash /\ tr.srcHash = HashOf(pre[tr.src].data)
           ]_vars

C32_Witness ==
    /\ pc = "ret" /\ tr.retErr = "nil" /\ opts.Verify /\ ext = {}
    /\ ~Exists(fs, tr.src) /\ HoldsOriginal(fs, tr.dst)
    /\ Len(fs[tr.dst].data) = MaxLen
    /\ hist.class = "copy"


\* The path next to p that carries the suffix of a working file.
TempPath(p) == Dir(p) \o <<Base(p) \o ".mirsht">>

\* Everything but the path p is in g as it is in f.
SameExcept(f, g, p) ==
    \A q \in (DOMAIN f \cup DOMAIN g) \ {p} : Exists(f, q) /\ Exists(g, q) /\ f[q] = g[q]

\* C33: while no other process touches the files, dst never holds a part of
\* the content: until the rename the transfer changes nothing but the
\* temporary path, dst comes into being by the rename of the temporary file,
\* after the copy reached the end of the source, the file was synced and
\* closed and the two digests were found equal, and from then on dst holds
\* the whole content.
C33_NoPartialDst ==
    /\ []((InTransfer /\ ext = {} /\ Exists(fs, tr.dst)) =>
             /\ HoldsOriginal(fs, tr.dst)
             /\ pc \in {"vopen", "vread", "vclose", "vhash", "remove", "cleanup", "ret"})
    /\ [][ (InTransfer /\ pc \in {"open", "create", "copy", "sync", "closeIn", "closeOut", "hash"}
               /\ pc' # "killed" /\ ext' = {})
             => SameExcept(fs, fs', TempPath(tr.dst)) ]_vars
    /\ [][ (InTransfer /\ ext' = {} /\ ~Exists(fs, tr.dst) /\ Exists(fs', tr.dst)) =>
              /\ pc = "rename"
              /\ tr.pos = Len(tr.inData)
              /\ tr.srcHash # NoHash /\ tr.srcHash = tr.dstHash
              /\ IsFile(fs, TempPath(tr.dst)) /\ fs'[tr.dst] = fs[TempPath(tr.dst)]
              /\ ~Exists(fs', TempPath(tr.dst)) ]_vars

C33_Witness ==
    /\ pc = "remove" /\ ~opts.Verify /\ ext = {}
    /\ IsFile(fs, tr.src) /\ HoldsOriginal(fs, tr.dst)
    /\ Len(fs[tr.dst].data) = MaxLen
    /\ ~Exists(fs, TempPath(tr.dst))

----------------------------------------------------------------------------
(* The files of the protected tree *)

\* The regular files the run found in the protected tree, the staging tree
\* aside.
ProtectedFiles ==
    { p \in DOMAIN fs0 : IsFile(fs0, p) /\ AtOrUnder(opts.RealRoot, p) /\ ~InStaging(p) }

\* p is the temporary path of the transfer of a staging file the run found.
TempOfStaged(p) ==
    \E q \in DOMAIN fs0 : UnderMirror(q) /\ IsFile(fs0, q) /\ p = TempPath(MovePath(q))

\* C34 as stated: every regular file the run found in the protected tree is
\* there with its content at every point of the run.
C34_ProtectedFilesUntouched ==
    \A p \in ProtectedFiles : IsFile(fs, p) /\ fs[p] = fs0[p]

\* C34, amended: every such file is there with its content at every point of
\* the run, unless it lies at the temporary path of a staging file's
\* transfer.
C34_ProtectedFilesUntouchedButTemp ==
    \A p \in ProtectedFiles : ~TempOfStaged(p) => IsFile(fs, p) /\ fs[p] = fs0[p]

C34_Witness ==
    /\ pc = "done" /\ result = "nil" /\ state.hasUnmovedFiles /\ ~opts.DryRun
    /\ IsFile(fs0, opts.RealRoot \o <<"a">>)
    /\ IsFile(fs, opts.RealRoot \o <<"a">>)
    /\ fs[opts.RealRoot \o <<"a">>] = fs0[opts.RealRoot \o <<"a">>]
    /\ IsFile(fs0, opts.MirrorRoot \o <<"a">>) /\ IsFile(fs, opts.MirrorRoot \o <<"a">>)
    /\ ~Exists(fs0, opts.RealRoot \o <<"e">>) /\ IsFile(fs, opts.RealRoot \o <<"e">>)

----------------------------------------------------------------------------
(* The entries a run visits *)

\* C35: the callback of a transfer run is called only for entries that
\* were in the staging tree when the run started, so the walk of a finite
\* tree comes to an end, wherever the two roots lie.
C35_VisitsOnlyStagedEntries ==
    hist.class \notin {"none", "start"} =>
        Exists(fs0, hist.path) /\ InStaging(hist.path)

----------------------------------------------------------------------------
(* The self-containment guard *)

\* The callback's guard against a target that is the staging root fired.
GuardSkip == pc = "walk" /\ hist' # hist /\ hist'.class = "mirror_into_mirror"

\* C36: when the guard skips an entry, directory or regular file, the walk
\* goes on with the entries that follow it in its directory (and does not
\* descend into it), or ends without an error when none follows anywhere.
C36_GuardSkipsOnlyEntry ==
    [][ GuardSkip =>
          LET rest == Normalise(Advanced)
          IN  IF rest = <<>> THEN pc' = "done" /\ result' = "nil"
              ELSE pc' = "walk" /\ stack' = rest ]_vars

----------------------------------------------------------------------------
(* The exit code of a completed run *)

\* C37: a run that came to its end without a fatal error exits with the
\* code of a partial failure when the partial failures bit is set, the
\* unmoved files bit set or not, and with the code of success only when
\* neither bit is set.
C37_PartialFailureFirst ==
    (pc = "done" /\ result = "nil") =>
        /\ state.hasPartialFailures => runExitCode(result, state) = exitCodePartialFailure
        /\ runExitCode(result, state) = exitCodeSuccess
               <=> (~state.hasPartialFailures /\ ~state.hasUnmovedFiles)

C37_Witness ==
    /\ pc = "done" /\ result = "nil"
    /\ state.hasPartialFailures /\ state.hasUnmovedFiles
    /\ opts.SkipFailed /\ failed # {}
    /\ runExitCode(result, state) = exitCodePartialFailure

----------------------------------------------------------------------------
(* Init mode: the protected tree *)

\* C38: every directory of the protected tree the init run found, the root
\* and the directories below it (a staging tree in the protected tree
\* aside), is there at every point of the run and at its end.
C38_ProtectedRootKept ==
    \A p \in DOMAIN fs0 :
        (AtOrUnder(opts.RealRoot, p) /\ fs0[p].isDir /\ ~(Nested /\ InStaging(p))) =>
            Exists(fs, p) /\ fs[p].isDir

====
